---- MODULE Spec2Model ----
(***************************************************************************)
(* A model of afloat-js: the AfloatAuth facade (client singleton and       *)
(* per-request server facades), its stores and token handlers, the wallet  *)
(* session store, the repositories that consult the facade, and the User   *)
(* permission model.                                                       *)
(***************************************************************************)
EXTENDS Integers, Sequences, FiniteSets, TLC

\* ------------------------------------------------------------------ bounds

\* Number of asynchronous facade operations that may be in flight together.
MaxTasks == 2
\* Number of server facades initializeServer may build beside the client session.
MaxServerFacades == 1
\* Number of concurrent server requests (each builds its own server facade).
MaxRequests == 2
\* Number of operations in flight together where repositories are called on the session.
MaxClientTasks == 1

\* ------------------------------------------------------------------ values

\* `undefined` for an object-valued slot (a user, a profile, a stored JSON blob).
Undefined == [ undefined |-> TRUE ]

\* `undefined` for a string-valued slot (a token).
NoToken == "undefined"

\* A response body that is not the array the contract promises.
NotArray == { "not-an-array" }

\* Permissions catalog, flattened (Permissions.<Domain>.<Action>).
Permissions ==
  { "profile.getCurrent", "profile.update",
    "contact.findById", "contact.findAll", "contact.create", "contact.update",
    "contact.delete",
    "payment.findById", "payment.findAll", "payment.create",
    "payout.findById", "payout.findAll", "payout.create", "payout.approve",
    "transfer.findById", "transfer.findAll", "transfer.create",
    "transfer.approve",
    "wallet.getBalance", "wallet.getStatement" }

\* A permission string the backend may grant that the catalog does not list.
ForeignPermissions == { "role.create" }

\* A key every plain object inherits: permissionsMap is a `{}` literal, so
\* permissionsMap["constructor"] is a function, neither null nor undefined.
InheritedKeys == { "constructor" }

PermissionStrings == Permissions \cup ForeignPermissions \cup InheritedKeys

\* The backend's accounts, keyed by login identity.
Identities == { "a@b.com", "c@d.com" }

Accounts ==
  [ i \in Identities |->
      IF i = "a@b.com"
      THEN [ name |-> "Ann", identity |-> i, profileId |-> "p1", token |-> "t1",
             access |-> { "payout.create", "contact.findAll", "contact.create",
                          "wallet.getBalance", "role.create" } ]
      ELSE [ name |-> "Cy", identity |-> i, profileId |-> "p2", token |-> "t2",
             access |-> { "payout.findAll", "payout.approve",
                          "wallet.getStatement" } ] ]

Tokens == { Accounts[i].token : i \in Identities }

TokenOwner(tok) == CHOOSE i \in Identities : Accounts[i].token = tok

\* The wallets the backend holds for the owner of a token.
WalletsOf(tok) ==
  IF tok = "t1"
  THEN << [ id |-> "w1", countryCode |-> "TZ", ok |-> TRUE ],
          [ id |-> "w2", countryCode |-> "KE", ok |-> TRUE ] >>
  ELSE << [ id |-> "w3", countryCode |-> "TZ", ok |-> TRUE ] >>

\* ------------------------------------------------------------------ User

\* Profile.from: an object with the required fields, else undefined.
ProfileFrom(data) ==
  IF data = Undefined THEN Undefined
  ELSE IF data.id = "" THEN Undefined
  ELSE [ id |-> data.id ]

\* The constructor testing the catalog's domain object, never a member of the
\* access list, in place of each permission of the domain.
NewUserOuterVariable(data) ==
  [ name |-> data.name, identity |-> data.identity, profile |-> data.profile,
    token |-> data.token, resetPassword |-> data.resetPassword,
    permissionsMap |-> [ p \in Permissions |-> FALSE ] ]

\* new User(data): the permissions map is computed once, over the catalog.
NewUser(data) ==
  [ name |-> data.name, identity |-> data.identity, profile |-> data.profile,
    token |-> data.token, resetPassword |-> data.resetPassword,
    permissionsMap |-> [ p \in Permissions |-> p \in data.access ] ]

\* User.can(permission): permissionsMap[permission] ?? false. An inherited key
\* reads as a function, which `??` passes on: a truthy answer.
Can(user, permission) ==
  IF permission \in DOMAIN user.permissionsMap
  THEN user.permissionsMap[permission]
  ELSE IF permission \in InheritedKeys THEN TRUE
  ELSE FALSE

\* User.from(data): validates the shape, then constructs.
UserFrom(data) ==
  IF data = Undefined THEN Undefined
  ELSE IF ProfileFrom(data.profile) = Undefined THEN Undefined
  ELSE IF \/ data.token = ""
          \/ data.name = ""
          \/ data.identity = ""
          \/ data.access = NotArray
       THEN Undefined
  ELSE NewUser([ data EXCEPT !.profile = ProfileFrom(data.profile) ])

\* User.toJSON(): the granted catalog permissions are written as `permissions`.
UserToJSON(user) ==
  [ profile |-> user.profile, token |-> user.token,
    resetPassword |-> user.resetPassword, name |-> user.name,
    identity |-> user.identity,
    permissions |-> { p \in DOMAIN user.permissionsMap : user.permissionsMap[p] } ]

\* User.fromJSON(json): User.from with access taken from `permissions`.
UserFromJSON(json) ==
  IF json = Undefined THEN Undefined
  ELSE UserFrom([ profile |-> json.profile, token |-> json.token,
                  resetPassword |-> json.resetPassword, name |-> json.name,
                  identity |-> json.identity, access |-> json.permissions ])

\* ------------------------------------------------------------------ state

VARIABLES
  instance,      \* AfloatAuth._instance: a facade id, or NoFacade
  current,       \* AuthContext.current: a facade id, or NoFacade
  facades,       \* every AfloatAuth built so far: id -> [kind, store, handler]
  serverUser,    \* ServerStore.user of each ServerStore built
  serverToken,   \* ServerTokenHandler.token of each handler built
  clientUser,    \* clientStore's `user`: the serialized user, or undefined
  authToken,     \* sessionStorage["auth_token"]
  wallet,        \* useWalletStore's state
  wsm,           \* WalletSessionManager._instance and its repo's auth
  tasks,         \* the asynchronous facade operations in flight
  reqs,          \* the server request handlers
  lastEvent,     \* the call or continuation that ran last, and its outcome
  subject,       \* the User under test (User permission checks)
  answers        \* the answers can() has given for the User under test

authVars == << instance, current, facades, serverUser, serverToken,
               clientUser, authToken, wallet, wsm >>

vars == << instance, current, facades, serverUser, serverToken, clientUser,
           authToken, wallet, wsm, tasks, reqs, lastEvent, subject, answers >>

\* No facade: the initial value of AuthContext.current and AfloatAuth._instance.
NoFacade == 0

\* ------------------------------------------------------------------ wallet store

initialSelectedWalletId == ""

initialSelectedCountryCode == "TZ"

\* The wallet store's initial (and reset) state.
InitialWallet ==
  [ userId |-> "", wallets |-> << >>,
    selectedWalletId |-> initialSelectedWalletId,
    selectedCountryCode |-> initialSelectedCountryCode,
    isInitialized |-> FALSE ]

\* Wallet.is(obj)
WalletIs(w) == w.ok

\* Wallet.from(data): an instance, or undefined (dropped by the caller).
WalletsFrom(raw) == SelectSeq(raw, WalletIs)

\* setWallets selecting the first valid wallet whatever was selected.
SetWalletsSelectFirst(ws, wallets) ==
  LET validatedWallets == SelectSeq(wallets, WalletIs)
  IN IF Len(validatedWallets) = 0
     THEN [ threw |-> TRUE, state |-> ws ]
     ELSE [ threw |-> FALSE,
            state |-> [ ws EXCEPT !.wallets = validatedWallets,
                                  !.selectedWalletId = validatedWallets[1].id,
                                  !.selectedCountryCode = validatedWallets[1].countryCode,
                                  !.isInitialized = TRUE ] ]

\* useWalletStore.setWallets: the new store state, or a throw.
SetWallets(ws, wallets) ==
  LET validatedWallets == SelectSeq(wallets, WalletIs)
      currentSelectedId == ws.selectedWalletId
      isCurrentlyInitialized == ws.isInitialized
      currentWalletStillValid ==
        \E i \in 1..Len(validatedWallets) : validatedWallets[i].id = currentSelectedId
      walletToSelect ==
        IF /\ isCurrentlyInitialized
           /\ currentWalletStillValid
           /\ currentSelectedId # initialSelectedWalletId
        THEN validatedWallets[CHOOSE i \in 1..Len(validatedWallets) :
                 /\ validatedWallets[i].id = currentSelectedId
                 /\ \A j \in 1..(i - 1) : validatedWallets[j].id # currentSelectedId]
        ELSE validatedWallets[1]
  IN IF Len(validatedWallets) = 0
     THEN [ threw |-> TRUE, state |-> ws ]
     ELSE [ threw |-> FALSE,
            state |-> [ ws EXCEPT !.wallets = validatedWallets,
                                  !.selectedWalletId = walletToSelect.id,
                                  !.selectedCountryCode = walletToSelect.countryCode,
                                  !.isInitialized = TRUE ] ]

\* ------------------------------------------------------------------ facade

\* The mutable world the facade code reads and writes, as one record.
World ==
  [ instance |-> instance, current |-> current, facades |-> facades,
    serverUser |-> serverUser, serverToken |-> serverToken,
    clientUser |-> clientUser, authToken |-> authToken,
    wallet |-> wallet, wsm |-> wsm ]

SetWorld(w) ==
  /\ instance' = w.instance
  /\ current' = w.current
  /\ facades' = w.facades
  /\ serverUser' = w.serverUser
  /\ serverToken' = w.serverToken
  /\ clientUser' = w.clientUser
  /\ authToken' = w.authToken
  /\ wallet' = w.wallet
  /\ wsm' = w.wsm

FacadeIds(w) == 1..Len(w.facades)

\* new AfloatAuth(createClientStore(), ClientTokenHandler.instance)
ClientFacade == [ kind |-> "client", store |-> 0, handler |-> 0 ]

\* The getter without its cache check: every read builds a facade.
GetInstanceFresh(w) ==
  [ w EXCEPT !.facades = Append(@, ClientFacade),
             !.instance = Len(w.facades) + 1,
             !.current = Len(w.facades) + 1 ]

\* AfloatAuth.instance (getter): creates the client facade once, then returns it.
GetInstance(w) ==
  IF w.instance = NoFacade
  THEN [ w EXCEPT !.facades = Append(@, ClientFacade),
                  !.instance = Len(w.facades) + 1,
                  !.current = Len(w.facades) + 1 ]
  ELSE w

\* store.getUser(): clientStore deserializes on every read; ServerStore holds the object.
StoreGetUser(w, f) ==
  IF w.facades[f].kind = "client"
  THEN UserFromJSON(w.clientUser)
  ELSE w.serverUser[w.facades[f].store]

\* store.setUser(user)
StoreSetUser(w, f, user) ==
  IF w.facades[f].kind = "client"
  THEN [ w EXCEPT !.clientUser = UserToJSON(user) ]
  ELSE [ w EXCEPT !.serverUser[w.facades[f].store] = user ]

\* store.refresh()
StoreRefresh(w, f) ==
  IF w.facades[f].kind = "client"
  THEN [ w EXCEPT !.clientUser = Undefined ]
  ELSE [ w EXCEPT !.serverUser[w.facades[f].store] = Undefined ]

\* getUserToken(): sessionStorage.getItem("auth_token") || undefined; this.token
GetUserToken(w, f) ==
  IF w.facades[f].kind = "client"
  THEN (IF w.authToken = "" THEN NoToken ELSE w.authToken)
  ELSE w.serverToken[w.facades[f].handler]

\* tokenHandler.setUserToken(token)
SetUserToken(w, f, token) ==
  IF w.facades[f].kind = "client"
  THEN [ w EXCEPT !.authToken = token ]
  ELSE [ w EXCEPT !.serverToken[w.facades[f].handler] = token ]

\* tokenHandler.clearToken(): removeItem on the client, "" on the server.
ClearToken(w, f) ==
  IF w.facades[f].kind = "client"
  THEN [ w EXCEPT !.authToken = NoToken ]
  ELSE [ w EXCEPT !.serverToken[w.facades[f].handler] = "" ]

\* AfloatAuth.currentUser (getter)
CurrentUser(w, f) == StoreGetUser(w, f)

\* checkPermission with the wrong default: currentUser?.can(perm) ?? true
CheckPermissionDefaultTrue(w, f, perm) ==
  IF CurrentUser(w, f) = Undefined THEN TRUE ELSE Can(CurrentUser(w, f), perm)

\* AfloatAuth.checkPermission(perm): currentUser?.can(perm) ?? false
CheckPermission(w, f, perm) ==
  IF CurrentUser(w, f) = Undefined THEN FALSE ELSE Can(CurrentUser(w, f), perm)

\* WalletSessionManager.instance: built once; its WalletRepo captures AuthContext.current.
WsmInstance(w) ==
  IF w.wsm.created THEN w
  ELSE [ w EXCEPT !.wsm = [ created |-> TRUE, auth |-> w.current ] ]

\* WalletSessionManager.reset() / useWalletStore.reset()
WalletReset(w) == [ w EXCEPT !.wallet = InitialWallet ]

\* clearSavedData that leaves the wallet session as it is.
ClearSavedDataKeepsWallet(w, f) == WsmInstance(ClearToken(StoreRefresh(w, f), f))

\* AfloatAuth.clearSavedData()
ClearSavedData(w, f) ==
  WalletReset(WsmInstance(ClearToken(StoreRefresh(w, f), f)))

\* ------------------------------------------------------------------ repositories

\* BaseRepository constructor: this.auth = args?.auth || AuthContext.current
RepoAuth(w, passed) == IF passed # NoFacade THEN passed ELSE w.current

\* BaseRepository.client (getter): the token header, the facade it was read
\* from, and the world (reading AfloatAuth.instance may create the client facade).
RepoClient(w, auth) ==
  IF auth # NoFacade
  THEN [ world |-> w, from |-> auth,
         token |-> IF GetUserToken(w, auth) = NoToken THEN "" ELSE GetUserToken(w, auth) ]
  ELSE LET w1 == GetInstance(w)
       IN [ world |-> w1, from |-> w1.instance,
            token |-> IF GetUserToken(w1, w1.instance) = NoToken
                      THEN "" ELSE GetUserToken(w1, w1.instance) ]

\* BaseRepository.getAuthForPermissionCheck(): this.auth || AuthContext.current,
\* and as a last resort AfloatAuth.instance.
GetAuthForPermissionCheck(w, auth) ==
  IF auth # NoFacade THEN [ world |-> w, auth |-> auth ]
  ELSE IF w.current # NoFacade THEN [ world |-> w, auth |-> w.current ]
  ELSE [ world |-> GetInstance(w), auth |-> GetInstance(w).instance ]

\* handleResponse(result, successStatusCode): the body, or the APIError thrown.
HandleResponse(result, successStatusCode) ==
  IF successStatusCode = result.status
  THEN [ threw |-> FALSE, body |-> result.body, statusCode |-> result.status ]
  ELSE IF result.status = 400
  THEN [ threw |-> TRUE, body |-> result.body, statusCode |-> result.body.statusCode ]
  ELSE [ threw |-> TRUE, body |-> result.body, statusCode |-> 520 ]

\* ------------------------------------------------------------------ events and tasks

Idle == [ kind |-> "idle" ]

TaskIds == 1..MaxTasks

ClientTaskIds == 1..MaxClientTasks

\* A new operation takes the first free slot.
Free(t) == tasks[t] = Idle /\ \A u \in 1..(t - 1) : tasks[u] # Idle

\* What the last step did: the operation, the facade it ran on, its outcome
\* (pending while it awaits), the requests it sent, what it returned, and the
\* backend's answer the step was resumed with.
Event(op, f, outcome, sent, user) ==
  [ op |-> op, f |-> f, outcome |-> outcome, sent |-> sent, user |-> user,
    requiredPermissions |-> {}, input |-> Undefined ]

\* The event of a continuation resumed with a response of the given status.
OnStatus(event, status) == [ event EXCEPT !.input = [ status |-> status ] ]

NoEvent == Event("none", NoFacade, "none", {}, Undefined)

\* ------------------------------------------------------------------ wallet session manager

\* initialize() without its early return: it fetches although the session is
\* already initialized.
WsmInitializeAlways(w0) ==
  LET w == WsmInstance(w0)
      user == IF w.current = NoFacade THEN Undefined ELSE CurrentUser(w, w.current)
      c == RepoClient(w, w.wsm.auth)
  IN IF user = Undefined
     THEN [ world |-> w, step |-> "unauthenticated", token |-> "" ]
     ELSE [ world |-> [ c.world EXCEPT !.wallet.userId = user.profile.id ],
            step |-> "fetch", token |-> c.token ]

\* WalletSessionManager.initialize(), up to its first await: returns at once when
\* already initialized, throws without a current user, else records the user id
\* and sends the wallet fetch with the token of its repository's facade.
WsmInitialize(w0) ==
  LET w == WsmInstance(w0)
      user == IF w.current = NoFacade THEN Undefined ELSE CurrentUser(w, w.current)
      w1 == IF w.wallet.userId # "" /\ w.wallet.userId # user.profile.id
            THEN [ WalletReset(w) EXCEPT !.wallet.userId = user.profile.id ]
            ELSE IF w.wallet.userId = ""
            THEN [ w EXCEPT !.wallet.userId = user.profile.id ]
            ELSE w
      c == RepoClient(w1, w1.wsm.auth)
  IN IF w.wallet.isInitialized
     THEN [ world |-> w, step |-> "already", token |-> "" ]
     ELSE IF user = Undefined
     THEN [ world |-> w, step |-> "unauthenticated", token |-> "" ]
     ELSE [ world |-> c.world, step |-> "fetch", token |-> c.token ]

\* WalletSessionManager.refreshWallets(), from the response of repo.getWallets() on.
RefreshWalletsDone(w, status, body) ==
  LET wallets == WalletsFrom(body)
      r == SetWallets(w.wallet, wallets)
  IN IF status # 200 THEN [ world |-> w, threw |-> TRUE ]
     ELSE IF Len(wallets) = 0 THEN [ world |-> w, threw |-> TRUE ]
     ELSE IF r.threw THEN [ world |-> w, threw |-> TRUE ]
     ELSE [ world |-> [ w EXCEPT !.wallet = r.state ], threw |-> FALSE ]

\* The bodies the backend answers a wallet fetch with, by the token it was sent.
WalletBodies(token) ==
  IF token \in Tokens THEN { WalletsOf(token), << >> } ELSE { << >> }

AllWalletBodies == UNION { WalletBodies(token) : token \in Tokens \cup { "" } }

\* ------------------------------------------------------------------ backend bodies

\* POST /login, 201: { profile, token, access, resetPassword }
LoginBody(id) ==
  [ profile |-> [ id |-> Accounts[id].profileId ], token |-> Accounts[id].token,
    access |-> Accounts[id].access, resetPassword |-> FALSE ]

\* GET /me, 200: { name, identity }
IdentityBody(id) == [ name |-> Accounts[id].name, identity |-> Accounts[id].identity ]

\* AuthRepository.logIn: the User built from the login body and the identity.
LoggedInUser(id) ==
  UserFrom([ profile |-> LoginBody(id).profile, token |-> LoginBody(id).token,
             access |-> LoginBody(id).access,
             resetPassword |-> LoginBody(id).resetPassword,
             name |-> IdentityBody(id).name, identity |-> IdentityBody(id).identity ])

\* ------------------------------------------------------------------ AfloatAuth operations

\* A read of AfloatAuth.instance.
InstanceRead ==
  LET w == GetInstance(World)
  IN /\ SetWorld(w)
     /\ lastEvent' = Event("instance", w.instance, "returned", {}, Undefined)
     /\ UNCHANGED << tasks, reqs, subject, answers >>

\* logIn(email, password), up to the await of the login request.
LogInStart(t, f, id) ==
  /\ Free(t)
  /\ f \in FacadeIds(World)
  /\ LET c == RepoClient(World, RepoAuth(World, NoFacade))
     IN /\ SetWorld(c.world)
        /\ tasks' = [ tasks EXCEPT ![t] =
             [ kind |-> "logIn", f |-> f, identity |-> id, pc |-> "login",
               walletToken |-> "" ] ]
        /\ lastEvent' = Event("logIn", f, "pending", { "login" }, Undefined)

\* A call of logIn(email, password).
LogInCall(t, f, id) ==
  /\ LogInStart(t, f, id)
  /\ UNCHANGED << reqs, subject, answers >>

\* The session of a facade as its callers can read it: auth.currentUser and
\* auth.getUserToken().
SessionOf(w, f) == [ user |-> CurrentUser(w, f), token |-> GetUserToken(w, f) ]

\* A caller reads the session of the facade, keeps what it read, and calls
\* logIn(email, password) in the same synchronous stretch.
ReadSessionAndLogIn(t, f, id) ==
  /\ LogInStart(t, f, id)
  /\ answers' = { a \in answers : a[1] # t } \cup { << t, SessionOf(World, f) >> }
  /\ UNCHANGED << reqs, subject >>

\* AuthRepository.logIn, from the login response on: 400 and every status but
\* 201 throw; 201 sends the identity fetch.
LogInResponse(t, status) ==
  /\ tasks[t].kind = "logIn"
  /\ tasks[t].pc = "login"
  /\ IF status = 201
     THEN LET c == RepoClient(World, RepoAuth(World, NoFacade))
          IN /\ SetWorld(c.world)
             /\ tasks' = [ tasks EXCEPT ![t].pc = "identity" ]
             /\ lastEvent' = OnStatus(Event("logIn", tasks[t].f, "pending",
                                             { "identity" }, Undefined), status)
     ELSE /\ tasks' = [ tasks EXCEPT ![t] = Idle ]
          /\ lastEvent' = OnStatus(Event("logIn", tasks[t].f,
                                         IF status = 400 THEN "APIError400" ELSE "APIError502",
                                         {}, Undefined), status)
          /\ UNCHANGED authVars
  /\ UNCHANGED << reqs, subject, answers >>

\* logIn that stores the user and leaves the token unset.
LogInStoreUserOnly(w, f, user) ==
  WsmInitialize(StoreSetUser(ClearSavedData(w, f), f, user))

\* AfloatAuth.logIn after repo.logIn resolved: clearSavedData, setUser,
\* setUserToken, then WalletSessionManager.initialize() up to its await.
LogInStore(w, f, user) ==
  WsmInitialize(SetUserToken(StoreSetUser(ClearSavedData(w, f), f, user), f, user.token))

\* The identity response: another status than 200 throws (502); 200 builds the
\* User and runs AfloatAuth.logIn up to the wallet fetch.
IdentityResponse(t, status) ==
  /\ tasks[t].kind = "logIn"
  /\ tasks[t].pc = "identity"
  /\ IF status = 200
     THEN LET user == LoggedInUser(tasks[t].identity)
              r == LogInStore(World, tasks[t].f, user)
          IN /\ SetWorld(r.world)
             /\ IF r.step = "fetch"
                THEN /\ tasks' = [ tasks EXCEPT ![t].pc = "wallets",
                                                ![t].walletToken = r.token ]
                     /\ lastEvent' = OnStatus(Event("logIn", tasks[t].f, "pending",
                                                    { "wallets" }, Undefined), status)
                ELSE /\ tasks' = [ tasks EXCEPT ![t] = Idle ]
                     /\ lastEvent' = OnStatus(Event("logIn", tasks[t].f,
                                                    IF r.step = "already" THEN "resolved" ELSE "Error",
                                                    {},
                                                    IF r.step = "already" THEN user ELSE Undefined),
                                              status)
     ELSE /\ tasks' = [ tasks EXCEPT ![t] = Idle ]
          /\ lastEvent' = OnStatus(Event("logIn", tasks[t].f, "APIError502", {}, Undefined),
                                   status)
          /\ UNCHANGED authVars
  /\ UNCHANGED << reqs, subject, answers >>

\* The wallet fetch of logIn's initialize() answers: refreshWallets stores the
\* wallets and logIn resolves with its user, or refreshWallets throws and
\* logIn rejects.
WalletsResponse(t, status, body) ==
  /\ tasks[t].kind = "logIn"
  /\ tasks[t].pc = "wallets"
  /\ status = 200 => tasks[t].walletToken \in Tokens
  /\ body \in WalletBodies(tasks[t].walletToken)
  /\ LET r == RefreshWalletsDone(World, status, body)
     IN /\ SetWorld(r.world)
        /\ lastEvent' = OnStatus(Event("logIn", tasks[t].f,
                                       IF r.threw THEN "Error" ELSE "resolved", {},
                                       IF r.threw THEN Undefined
                                       ELSE LoggedInUser(tasks[t].identity)), status)
  /\ tasks' = [ tasks EXCEPT ![t] = Idle ]
  /\ UNCHANGED << reqs, subject, answers >>

\* logOut()
LogOut(f) ==
  /\ f \in FacadeIds(World)
  /\ SetWorld(ClearSavedData(World, f))
  /\ lastEvent' = Event("logOut", f, "returned", {}, Undefined)
  /\ UNCHANGED << tasks, reqs, subject, answers >>

\* resetPassword(current, updated), up to the await of the password request.
ResetPasswordCall(t, f) ==
  /\ Free(t)
  /\ f \in FacadeIds(World)
  /\ LET c == RepoClient(World, RepoAuth(World, NoFacade))
     IN /\ SetWorld(c.world)
        /\ tasks' = [ tasks EXCEPT ![t] = [ kind |-> "resetPassword", f |-> f ] ]
        /\ lastEvent' = Event("resetPassword", f, "pending", { "resetPassword" }, Undefined)
  /\ UNCHANGED << reqs, subject, answers >>

\* resetPassword that clears the saved data whatever updatePassword answered.
ResetPasswordResponseAlwaysClears(t, status) ==
  /\ tasks[t].kind = "resetPassword"
  /\ SetWorld(ClearSavedData(World, tasks[t].f))
  /\ lastEvent' = OnStatus(Event("resetPassword", tasks[t].f,
                                 IF status = 200 THEN "resolved"
                                 ELSE IF status = 400 THEN "APIError400" ELSE "APIError502",
                                 {}, Undefined), status)
  /\ tasks' = [ tasks EXCEPT ![t] = Idle ]
  /\ UNCHANGED << reqs, subject, answers >>

\* AuthRepository.updatePassword's result, then AfloatAuth.resetPassword:
\* 200 clears the saved data and returns true; 400 and the rest throw.
ResetPasswordResponse(t, status) ==
  /\ tasks[t].kind = "resetPassword"
  /\ IF status = 200
     THEN /\ SetWorld(ClearSavedData(World, tasks[t].f))
          /\ lastEvent' = OnStatus(Event("resetPassword", tasks[t].f, "resolved", {},
                                         Undefined), status)
     ELSE /\ UNCHANGED authVars
          /\ lastEvent' = OnStatus(Event("resetPassword", tasks[t].f,
                                         IF status = 400 THEN "APIError400" ELSE "APIError502",
                                         {}, Undefined), status)
  /\ tasks' = [ tasks EXCEPT ![t] = Idle ]
  /\ UNCHANGED << reqs, subject, answers >>

\* ------------------------------------------------------------------ initializeServer

\* How one of the three fetches of constructUser may answer: 200 with the body
\* the contract promises, 200 with a malformed body, or a status other than 200.
\* (A fetch that rejects is FetchReject.)
FetchAnswers == { "ok", "malformed", "s500" }

FetchNames == { "access", "profile", "identity" }

\* The { status, body } of an answer to the named fetch, sent with token tok.
FetchResult(name, tok, answer) ==
  [ status |-> IF answer = "s500" THEN 500 ELSE 200,
    body |->
      IF name = "access"
      THEN (IF answer = "ok" THEN Accounts[TokenOwner(tok)].access ELSE NotArray)
      ELSE IF name = "profile"
      THEN (IF answer = "ok" THEN [ id |-> Accounts[TokenOwner(tok)].profileId ]
            ELSE [ id |-> "" ])
      ELSE (IF answer = "ok" THEN IdentityBody(TokenOwner(tok))
            ELSE [ name |-> "", identity |-> "" ]) ]

\* constructUser that swallows a failed access-list fetch and goes on with no access.
ConstructUserPartial(task) ==
  LET access == HandleResponse(FetchResult("access", task.token, task.access), 200)
      profileResult == HandleResponse(FetchResult("profile", task.token, task.profile), 200)
      identityResult == HandleResponse(FetchResult("identity", task.token, task.identity), 200)
      profile == ProfileFrom(profileResult.body)
      user == UserFrom([ token |-> task.token, profile |-> profileResult.body,
                         access |-> IF access.threw \/ access.body = NotArray
                                    THEN {} ELSE access.body,
                         resetPassword |-> FALSE,
                         name |-> identityResult.body.name,
                         identity |-> identityResult.body.identity ])
  IN IF profileResult.threw \/ identityResult.threw
     THEN [ threw |-> TRUE, user |-> Undefined ]
     ELSE IF profile = Undefined THEN [ threw |-> TRUE, user |-> Undefined ]
     ELSE IF user = Undefined THEN [ threw |-> TRUE, user |-> Undefined ]
     ELSE [ threw |-> FALSE, user |-> user ]

\* ServerTokenHandler.constructUser after Promise.all resolved: handleResponse on
\* each result, Profile.from, User.from; any failure throws.
ConstructUser(task) ==
  LET access == HandleResponse(FetchResult("access", task.token, task.access), 200)
      profileResult == HandleResponse(FetchResult("profile", task.token, task.profile), 200)
      identityResult == HandleResponse(FetchResult("identity", task.token, task.identity), 200)
      profile == ProfileFrom(profileResult.body)
      user == UserFrom([ token |-> task.token, profile |-> profileResult.body,
                         access |-> access.body, resetPassword |-> FALSE,
                         name |-> identityResult.body.name,
                         identity |-> identityResult.body.identity ])
  IN IF access.threw \/ profileResult.threw \/ identityResult.threw
     THEN [ threw |-> TRUE, user |-> Undefined ]
     ELSE IF profile = Undefined THEN [ threw |-> TRUE, user |-> Undefined ]
     ELSE IF user = Undefined THEN [ threw |-> TRUE, user |-> Undefined ]
     ELSE [ threw |-> FALSE, user |-> user ]

\* One module-level ServerStore handed to every server facade.
SharedServerStore(w) == 1

\* new ServerStore(): a store of its own.
NewServerStore(w) == Len(w.serverUser) + 1

\* new ServerTokenHandler(token): a handler of its own.
NewServerTokenHandler(w) == Len(w.serverToken) + 1

\* The cells of a store and a handler, created when first used.
WithCells(w, store, handler, token) ==
  [ w EXCEPT !.serverUser = IF store > Len(@) THEN Append(@, Undefined) ELSE @,
             !.serverToken = IF handler > Len(@) THEN Append(@, token)
                             ELSE [ @ EXCEPT ![handler] = token ] ]

\* initializeServer after constructUser resolved: store.setUser(user),
\* new AfloatAuth(store, tokenHandler), AuthContext.current = auth.
InitializeServerDone(w, task, user) ==
  LET store == NewServerStore(w)
      handler == NewServerTokenHandler(w)
      w1 == WithCells(w, store, handler, task.token)
      f == Len(w.facades) + 1
      w2 == [ w1 EXCEPT !.facades = Append(@, [ kind |-> "server", store |-> store,
                                                handler |-> handler ]) ]
  IN [ StoreSetUser(w2, f, user) EXCEPT !.current = f ]

ServerFacades(w) == { f \in FacadeIds(w) : w.facades[f].kind = "server" }

InitTasks == { t \in TaskIds : tasks[t].kind = "initServer" }

\* initializeServer whose token check comes after the fetches were issued.
InitializeServerStartLateCheck(t, token, owner) ==
  IF token = ""
  THEN /\ tasks' = tasks
       /\ lastEvent' = Event("initializeServer", NoFacade, "Error: Token is required",
                             FetchNames, Undefined)
  ELSE /\ tasks' = [ tasks EXCEPT ![t] =
            [ kind |-> "initServer", token |-> token, owner |-> owner,
              access |-> "pending", profile |-> "pending", identity |-> "pending" ] ]
       /\ lastEvent' = Event("initializeServer", NoFacade, "pending", FetchNames, Undefined)

\* initializeServer(token), up to the await of Promise.all: an empty token
\* throws before anything is built or sent; otherwise the three fetches go out.
InitializeServerStart(t, token, owner) ==
  IF token = ""
  THEN /\ tasks' = tasks
       /\ lastEvent' = Event("initializeServer", NoFacade, "Error: Token is required",
                             {}, Undefined)
  ELSE /\ tasks' = [ tasks EXCEPT ![t] =
            [ kind |-> "initServer", token |-> token, owner |-> owner,
              access |-> "pending", profile |-> "pending", identity |-> "pending" ] ]
       /\ lastEvent' = Event("initializeServer", NoFacade, "pending", FetchNames, Undefined)

\* A call of initializeServer(token) beside the client session.
InitializeServerCall(t, token) ==
  /\ Free(t)
  /\ Cardinality(ServerFacades(World)) + Cardinality(InitTasks) < MaxServerFacades
  /\ InitializeServerStart(t, token, 0)
  /\ UNCHANGED << authVars, reqs, subject, answers >>

\* The task after the named fetch answered.
Answered(task, name, answer) ==
  IF name = "access" THEN [ task EXCEPT !.access = answer ]
  ELSE IF name = "profile" THEN [ task EXCEPT !.profile = answer ]
  ELSE [ task EXCEPT !.identity = answer ]

\* The event of initializeServer settling, with how its three fetches answered.
OnFetched(event, task) ==
  [ event EXCEPT !.input = [ access |-> task.access, profile |-> task.profile,
                             identity |-> task.identity, token |-> task.token ] ]

AllAnswered(task) ==
  task.access # "pending" /\ task.profile # "pending" /\ task.identity # "pending"

\* The request handler that awaits the task, told how initializeServer ended.
Settle(rs, task, facade) ==
  IF task.owner = 0 THEN rs
  ELSE [ rs EXCEPT ![task.owner].pc = IF facade = NoFacade THEN "failed" ELSE "ready",
                   ![task.owner].facade = facade ]

\* One of the three fetches answers. With the last answer Promise.all resolves
\* and constructUser and initializeServer run to their end.
FetchArrive(t, name, answer) ==
  /\ tasks[t].kind = "initServer"
  /\ tasks[t][name] = "pending"
  /\ LET task == Answered(tasks[t], name, answer)
         r == ConstructUser(task)
     IN IF ~AllAnswered(task)
        THEN /\ tasks' = [ tasks EXCEPT ![t] = task ]
             /\ lastEvent' = Event("fetch", NoFacade, "pending", {}, Undefined)
             /\ UNCHANGED << authVars, reqs >>
        ELSE IF r.threw
        THEN /\ tasks' = [ tasks EXCEPT ![t] = Idle ]
             /\ lastEvent' = OnFetched(Event("initializeServer", NoFacade,
                                             "Error: Failed to initialize", {}, Undefined),
                                       task)
             /\ reqs' = Settle(reqs, task, NoFacade)
             /\ UNCHANGED authVars
        ELSE LET w == InitializeServerDone(World, task, r.user)
             IN /\ SetWorld(w)
                /\ tasks' = [ tasks EXCEPT ![t] = Idle ]
                /\ lastEvent' = OnFetched(Event("initializeServer", w.current, "resolved",
                                                {}, r.user), task)
                /\ reqs' = Settle(reqs, task, w.current)
  /\ UNCHANGED << subject, answers >>

\* One of the fetches rejects (the transport fails): Promise.all rejects at
\* once, whatever the other fetches do.
FetchReject(t, name) ==
  /\ tasks[t].kind = "initServer"
  /\ tasks[t][name] = "pending"
  /\ tasks' = [ tasks EXCEPT ![t] = Idle ]
  /\ lastEvent' = OnFetched(Event("initializeServer", NoFacade,
                                  "Error: Failed to initialize", {}, Undefined),
                            Answered(tasks[t], name, "rejected"))
  /\ reqs' = Settle(reqs, tasks[t], NoFacade)
  /\ UNCHANGED << authVars, subject, answers >>

\* ------------------------------------------------------------------ gated repository operations

\* The permission-gated operations of ContactRepository, PayoutRepository and WalletRepo.
GatedOps ==
  { "contact.create", "contact.edit", "contact.remove", "contact.getAll",
    "payout.getAll", "payout.pay", "payout.approve", "payout.reject",
    "wallet.getBalance", "wallet.getStatement" }

\* The permission each operation passes to checkPermission.
CheckedPermission(op) ==
  CASE op = "contact.create" -> "contact.create"
    [] op = "contact.edit" -> "contact.update"
    [] op = "contact.remove" -> "contact.delete"
    [] op = "contact.getAll" -> "contact.findAll"
    [] op = "payout.getAll" -> "payout.findAll"
    [] op = "payout.pay" -> "payout.create"
    [] op = "payout.approve" -> "payout.approve"
    [] op = "payout.reject" -> "payout.approve"
    [] op = "wallet.getBalance" -> "wallet.getBalance"
    [] op = "wallet.getStatement" -> "wallet.getStatement"

\* The requiredPermissions each operation puts in the PermissionError it throws.
ThrownPermissions(op) ==
  CASE op = "contact.create" -> { "contact.create" }
    [] op = "contact.edit" -> { "contact.update" }
    [] op = "contact.remove" -> { "contact.delete" }
    [] op = "contact.getAll" -> { "contact.findAll" }
    [] op = "payout.getAll" -> { "payout.findAll" }
    [] op = "payout.pay" -> { "payout.create" }
    [] op = "payout.approve" -> { "payout.approve" }
    [] op = "payout.reject" -> { "payout.approve" }
    [] op = "wallet.getBalance" -> { "wallet.getBalance" }
    [] op = "wallet.getStatement" -> { "wallet.getStatement" }

\* Only PayoutRepository.getAll takes a range that can be invalid.
RangeInputs(op) == IF op = "payout.getAll" THEN BOOLEAN ELSE { TRUE }

IsPayoutOp(op) == op \in { "payout.getAll", "payout.pay", "payout.approve", "payout.reject" }

\* The facade an operation asks for the permission: PayoutRepository reads
\* AfloatAuth.instance, the others call getAuthForPermissionCheck().
PermissionAuth(w, auth, op) ==
  IF IsPayoutOp(op)
  THEN [ world |-> GetInstance(w), auth |-> GetInstance(w).instance ]
  ELSE GetAuthForPermissionCheck(w, auth)

\* A gated operation that sends its request first and checks the permission
\* when the response is in.
GatedCallCheckedLate(w, auth, op, rangeOk) ==
  LET g == PermissionAuth(w, auth, op)
      c == RepoClient(g.world, auth)
  IN IF op = "payout.getAll" /\ ~rangeOk
     THEN [ world |-> g.world, outcome |-> "APIError400", sent |-> {},
            requiredPermissions |-> {},
            permFrom |-> g.auth, tokenFrom |-> NoFacade, token |-> "" ]
     ELSE IF ~CheckPermission(g.world, g.auth, CheckedPermission(op))
     THEN [ world |-> c.world, outcome |-> "PermissionError", sent |-> { op },
            requiredPermissions |-> ThrownPermissions(op),
            permFrom |-> g.auth, tokenFrom |-> c.from, token |-> c.token ]
     ELSE [ world |-> c.world, outcome |-> "pending", sent |-> { op },
            requiredPermissions |-> {},
            permFrom |-> g.auth, tokenFrom |-> c.from, token |-> c.token ]

\* A gated operation of a repository whose this.auth is `auth`, up to its first
\* await: the permission check, PayoutRepository.getAll's range check, then the
\* request with the token header this.client reads.
GatedCall(w, auth, op, rangeOk) ==
  LET g == PermissionAuth(w, auth, op)
      c == RepoClient(g.world, auth)
  IN IF ~CheckPermission(g.world, g.auth, CheckedPermission(op))
     THEN [ world |-> g.world, outcome |-> "PermissionError", sent |-> {},
            requiredPermissions |-> ThrownPermissions(op),
            permFrom |-> g.auth, tokenFrom |-> NoFacade, token |-> "" ]
     ELSE IF op = "payout.getAll" /\ ~rangeOk
     THEN [ world |-> g.world, outcome |-> "APIError400", sent |-> {},
            requiredPermissions |-> {},
            permFrom |-> g.auth, tokenFrom |-> NoFacade, token |-> "" ]
     ELSE [ world |-> c.world, outcome |-> "pending", sent |-> { op },
            requiredPermissions |-> {},
            permFrom |-> g.auth, tokenFrom |-> c.from, token |-> c.token ]

\* What a gated call leaves in lastEvent: the facade is the one asked for the permission.
GatedEvent(op, g) ==
  [ op |-> op, f |-> g.permFrom, outcome |-> g.outcome, sent |-> g.sent,
    user |-> Undefined, requiredPermissions |-> g.requiredPermissions,
    input |-> Undefined ]

\* A repository built with no auth argument and one of its gated operations called.
RepositoryCall(op, rangeOk) ==
  LET g == GatedCall(World, RepoAuth(World, NoFacade), op, rangeOk)
  IN /\ SetWorld(g.world)
     /\ lastEvent' = GatedEvent(op, g)
     /\ UNCHANGED << tasks, reqs, subject, answers >>

\* A repository built when the module was loaded, before any facade existed
\* (its this.auth is undefined from then on), and one of its gated operations
\* called now. The event keeps the facade the token was read from and the
\* token sent.
ModuleRepositoryCall(op, rangeOk) ==
  LET g == GatedCall(World, NoFacade, op, rangeOk)
  IN /\ SetWorld(g.world)
     /\ lastEvent' = [ GatedEvent(op, g) EXCEPT
                         !.input = [ tokenFrom |-> g.tokenFrom, token |-> g.token ] ]
     /\ UNCHANGED << tasks, reqs, subject, answers >>

\* ------------------------------------------------------------------ server requests

RequestIds == 1..MaxRequests

\* A request handler starts: it calls initializeServer(token) with its own token.
RequestStart(r, t, token) ==
  /\ reqs[r].pc = "none"
  /\ Free(t)
  /\ InitializeServerStart(t, token, r)
  /\ reqs' = [ reqs EXCEPT ![r].pc = "initializing", ![r].token = token ]
  /\ UNCHANGED << authVars, subject, answers >>

\* The handler, resumed with its facade, builds a repository without passing auth.
RequestBuild(r) ==
  /\ reqs[r].pc = "ready"
  /\ reqs' = [ reqs EXCEPT ![r].pc = "built", ![r].auth = RepoAuth(World, NoFacade) ]
  /\ lastEvent' = Event("new Repository", reqs[r].facade, "returned", {}, Undefined)
  /\ UNCHANGED << authVars, tasks, subject, answers >>

\* The handler calls a gated operation of its repository.
RequestCall(r, op, rangeOk) ==
  /\ reqs[r].pc = "built"
  /\ LET g == GatedCall(World, reqs[r].auth, op, rangeOk)
     IN /\ SetWorld(g.world)
        /\ lastEvent' = GatedEvent(op, g)
        /\ reqs' = [ reqs EXCEPT ![r].pc = IF g.sent = {} THEN "thrown" ELSE "called",
                                 ![r].permFrom = g.permFrom,
                                 ![r].tokenFrom = g.tokenFrom,
                                 ![r].sentToken = g.token ]
  /\ UNCHANGED << tasks, subject, answers >>

\* ------------------------------------------------------------------ a User on its own

\* The access lists a User under test is built from.
AccessLists == SUBSET { "payout.create", "payout.approve", "role.create" }

\* The strings can() is asked about.
AskedStrings ==
  { "payout.create", "payout.approve", "contact.create", "role.create", "constructor" }

\* The data User.from is given, but for the access list.
UserData(access) ==
  [ profile |-> [ id |-> "p1" ], token |-> "t1", access |-> access,
    resetPassword |-> FALSE, name |-> "Ann", identity |-> "a@b.com" ]

\* User.from(data) builds the User under test from its access list.
BuildUser ==
  /\ subject.user = Undefined
  /\ subject' = [ subject EXCEPT !.user = UserFrom(UserData(subject.access)) ]
  /\ lastEvent' = Event("User.from", NoFacade, "returned", {}, Undefined)
  /\ UNCHANGED << authVars, tasks, reqs, answers >>

\* user.can(p) is called and its answer noted.
AskCan(p) ==
  /\ subject.user # Undefined
  /\ answers' = answers \cup { << p, Can(subject.user, p) >> }
  /\ lastEvent' = Event("can", NoFacade, "returned", {}, Undefined)
  /\ UNCHANGED << authVars, tasks, reqs, subject >>

\* The User goes through the client store: User.fromJSON(user.toJSON()).
RoundTrip ==
  /\ subject.user # Undefined
  /\ subject' = [ subject EXCEPT !.user = UserFromJSON(UserToJSON(subject.user)) ]
  /\ lastEvent' = Event("User.fromJSON", NoFacade, "returned", {}, Undefined)
  /\ UNCHANGED << authVars, tasks, reqs, answers >>

\* ------------------------------------------------------------------ Payout

\* enum PAYOUT_STATUS
PAYOUT_STATUS == { "PENDING", "PAID", "FAILED", "REJECTED", "CREATED" }

\* enum PAYOUT_APPROVAL_STATUS
PAYOUT_APPROVAL_STATUS == { "Pending", "Approved", "Rejected" }

\* payoutStatusSchema: the transaction statuses the schema lets through.
payoutStatusSchema == PAYOUT_STATUS \cup { "QUEUED", "REVERSED" }

\* approvalPayoutStatusSchema
approvalPayoutStatusSchema == PAYOUT_APPROVAL_STATUS

\* The payout records handed to Payout.create: every pair of the two schemas,
\* and pairs with an approval status the schema refuses.
PayoutRecords ==
  [ approvalStatus : approvalPayoutStatusSchema \cup { "Cancelled" },
    status : payoutStatusSchema ]

\* PayoutSchemas.payoutData.parse(data) in the Payout constructor: throws on a
\* record the schema refuses.
PayoutParses(data) ==
  data.approvalStatus \in approvalPayoutStatusSchema /\ data.status \in payoutStatusSchema

\* The getter returning the stored transaction status whenever the payout was approved.
PayoutStatusStoredWhenApproved(data) ==
  IF data.approvalStatus = "Rejected" THEN "REJECTED"
  ELSE IF data.approvalStatus = "Approved"
  THEN (IF data.status = "FAILED" THEN "FAILED" ELSE data.status)
  ELSE IF data.approvalStatus = "Pending" THEN "PENDING"
  ELSE data.status

\* Payout.status (getter)
PayoutStatus(data) ==
  IF data.approvalStatus = "Rejected" THEN "REJECTED"
  ELSE IF data.approvalStatus = "Approved"
  THEN (IF data.status = "FAILED" THEN "FAILED" ELSE "PAID")
  ELSE IF data.approvalStatus = "Pending" THEN "PENDING"
  ELSE data.status

\* ProcessedPayout.transactionStatus (getter): the same derivation over the
\* source Payout, whose `status` is itself the derived one.
TransactionStatus(data) ==
  IF data.approvalStatus = "Rejected" THEN "REJECTED"
  ELSE IF data.approvalStatus = "Approved"
  THEN (IF PayoutStatus(data) = "FAILED" THEN "FAILED" ELSE "PAID")
  ELSE IF data.approvalStatus = "Pending" THEN "PENDING"
  ELSE PayoutStatus(data)

\* Payout.create(data): the Payout, or the schema's error.
PayoutCreate ==
  /\ subject.payout = Undefined
  /\ IF PayoutParses(subject.data)
     THEN /\ subject' = [ subject EXCEPT !.payout = subject.data ]
          /\ lastEvent' = Event("Payout.create", NoFacade, "returned", {}, Undefined)
     ELSE /\ subject' = subject
          /\ lastEvent' = Event("Payout.create", NoFacade, "ZodError", {}, Undefined)
  /\ UNCHANGED << authVars, tasks, reqs, answers >>

\* payout.status is read.
ReadStatus ==
  /\ subject.payout # Undefined
  /\ answers' = answers \cup { << "status", PayoutStatus(subject.payout) >> }
  /\ lastEvent' = Event("status", NoFacade, "returned", {}, Undefined)
  /\ UNCHANGED << authVars, tasks, reqs, subject >>

\* ProcessedPayout.from(payout).transactionStatus is read.
ReadTransactionStatus ==
  /\ subject.payout # Undefined
  /\ answers' = answers \cup { << "transactionStatus", TransactionStatus(subject.payout) >> }
  /\ lastEvent' = Event("transactionStatus", NoFacade, "returned", {}, Undefined)
  /\ UNCHANGED << authVars, tasks, reqs, subject >>

\* ------------------------------------------------------------------ strings

\* A string is the sequence of its characters; "" is << >>.
LowerCase ==
    << "a", "b", "c", "d", "e", "f", "g", "h", "i", "j", "k", "l", "m",
       "n", "o", "p", "q", "r", "s", "t", "u", "v", "w", "x", "y", "z" >>

UpperCase ==
    << "A", "B", "C", "D", "E", "F", "G", "H", "I", "J", "K", "L", "M",
       "N", "O", "P", "Q", "R", "S", "T", "U", "V", "W", "X", "Y", "Z" >>

Digits == { "0", "1", "2", "3", "4", "5", "6", "7", "8", "9" }

\* The characters String.prototype.trim and the regular expression class \s strip.
WhiteSpace == { " ", "\t", "\n" }

\* `undefined` where a string is expected (a missing array element or map key).
NoText == << "undefined" >>

\* JavaScript truthiness of a string-valued slot.
Truthy(s) == s # NoText /\ s # << >>

CharToUpperCase(c) ==
    IF \E i \in 1..Len(LowerCase) : LowerCase[i] = c
    THEN UpperCase[CHOOSE i \in 1..Len(LowerCase) : LowerCase[i] = c]
    ELSE c

CharToLowerCase(c) ==
    IF \E i \in 1..Len(UpperCase) : UpperCase[i] = c
    THEN LowerCase[CHOOSE i \in 1..Len(UpperCase) : UpperCase[i] = c]
    ELSE c

toUpperCase(s) == [ i \in 1..Len(s) |-> CharToUpperCase(s[i]) ]

toLowerCase(s) == [ i \in 1..Len(s) |-> CharToLowerCase(s[i]) ]

RECURSIVE trimStart(_)
trimStart(s) ==
    IF s # << >> /\ Head(s) \in WhiteSpace THEN trimStart(Tail(s)) ELSE s

RECURSIVE trimEnd(_)
trimEnd(s) ==
    IF s # << >> /\ s[Len(s)] \in WhiteSpace
    THEN trimEnd(SubSeq(s, 1, Len(s) - 1))
    ELSE s

trim(s) == trimEnd(trimStart(s))

startsWith(s, prefix) ==
    Len(prefix) <= Len(s) /\ SubSeq(s, 1, Len(prefix)) = prefix

\* s.substring(n): the characters from the 0-based position n on.
substring(s, n) == SubSeq(s, n + 1, Len(s))

\* 1-based position of the first occurrence of `part` in s, 0 when there is none.
indexOf(s, part) ==
    LET hits == { i \in 1..(Len(s) - Len(part) + 1) :
                      SubSeq(s, i, i + Len(part) - 1) = part }
    IN  IF hits = {} THEN 0 ELSE CHOOSE i \in hits : \A j \in hits : i <= j

\* s.replace(part, by) with a string pattern: the first occurrence only.
replace(s, part, by) ==
    LET i == indexOf(s, part)
    IN  IF i = 0 THEN s
        ELSE SubSeq(s, 1, i - 1) \o by \o SubSeq(s, i + Len(part), Len(s))

\* s.split(separator): every piece between separators, empty pieces included.
RECURSIVE split(_, _)
split(s, separator) ==
    LET i == indexOf(s, separator)
    IN  IF i = 0 THEN << s >>
        ELSE << SubSeq(s, 1, i - 1) >>
                 \o split(SubSeq(s, i + Len(separator), Len(s)), separator)

RECURSIVE join(_, _)
join(pieces, separator) ==
    IF pieces = << >> THEN << >>
    ELSE IF Len(pieces) = 1 THEN pieces[1]
    ELSE pieces[1] \o separator \o join(Tail(pieces), separator)

\* array[i] with a 0-based index: `undefined` past the end.
At(array, i) == IF i + 1 <= Len(array) THEN array[i + 1] ELSE NoText

\* array.slice(n)
slice(array, n) == SubSeq(array, n + 1, Len(array))

capitalizeFirstLetter(str) ==
    IF Len(str) = 0 THEN str
    ELSE << CharToUpperCase(str[1]) >> \o toLowerCase(SubSeq(str, 2, Len(str)))

MapCapitalize(array) == [ i \in 1..Len(array) |-> capitalizeFirstLetter(array[i]) ]

\* str.replace(/\s+/g, "")
RECURSIVE removeSpaces(_)
removeSpaces(input) ==
    IF input = << >> THEN << >>
    ELSE IF Head(input) \in WhiteSpace THEN removeSpaces(Tail(input))
    ELSE << Head(input) >> \o removeSpaces(Tail(input))

\* ------------------------------------------------------------------ bank and phone registries

\* The bank registry the narration codec looks banks up in: `fromBankName`
\* resolves a short name, `fromSWIFTCode` a SWIFT code, both to `undefined`
\* when nothing matches.
CRDB ==
    [ shortName |-> << "C", "R", "D", "B" >>,
      swiftCode |-> << "C", "O", "R", "U", "T", "Z", "T", "Z" >> ]

NMB ==
    [ shortName |-> << "N", "M", "B" >>,
      swiftCode |-> << "N", "M", "I", "B", "T", "Z", "T", "Z" >> ]

Banks == { CRDB, NMB }

BankFromBankName(name) ==
    IF \E b \in Banks : b.shortName = name
    THEN CHOOSE b \in Banks : b.shortName = name
    ELSE Undefined

BankFromSWIFTCode(code) ==
    IF \E b \in Banks : b.swiftCode = code
    THEN CHOOSE b \in Banks : b.swiftCode = code
    ELSE Undefined

\* Tanzanian phone numbers, each known by its nine-digit compact number.
TZPhoneNumbers ==
    { [ compactNumber |-> << "7", "1", "2", "3", "4", "5", "6", "7", "8" >> ],
      [ compactNumber |-> << "6", "5", "5", "0", "0", "0", "1", "1", "1" >> ] }

\* phoneNumber.label: the number as "+255123456789".
PhoneLabel(phoneNumber) == << "+", "2", "5", "5" >> \o phoneNumber.compactNumber

\* The ways one number may be written.
PhoneWritings(phoneNumber) ==
    { PhoneLabel(phoneNumber),
      << "2", "5", "5" >> \o phoneNumber.compactNumber,
      << "0" >> \o phoneNumber.compactNumber }

\* TZPhoneNumber.from(text): the number the text writes, or `undefined`.
TZPhoneNumberFrom(text) ==
    IF \E p \in TZPhoneNumbers : text \in PhoneWritings(p)
    THEN CHOOSE p \in TZPhoneNumbers : text \in PhoneWritings(p)
    ELSE Undefined

\* ------------------------------------------------------------------ contact info

\* new MobileContactInfo(name, phoneNumber): the constructor stores and never throws.
MobileContactInfo(name, phoneNumber) ==
    [ type |-> "Mobile", name |-> name, phoneNumber |-> phoneNumber ]

\* new BankContactInfo(accName, bank, accNo): the constructor stores and never throws.
BankContactInfo(accName, bank, accNo) ==
    [ type |-> "Bank", accName |-> accName, bank |-> bank, accNo |-> accNo ]

\* ------------------------------------------------------------------ contact validation

Letters == { LowerCase[i] : i \in 1..Len(LowerCase) } \cup { UpperCase[i] : i \in 1..Len(UpperCase) }

\* str.trim().replace(/\s+/g, " ")
RECURSIVE collapseSpaces(_)
collapseSpaces(s) ==
    IF s = << >> THEN << >>
    ELSE IF Head(s) \in WhiteSpace
    THEN << " " >> \o collapseSpaces(trimStart(s))
    ELSE << Head(s) >> \o collapseSpaces(Tail(s))

normalizeSpaces(input) == collapseSpaces(trim(input))

\* ACCOUNT_NAME_REGEX: two or more words, one space apart, each a letter
\* followed by one or more letters, apostrophes, periods or hyphens.
ACCOUNT_NAME_REGEX(s) ==
    LET words == split(s, << " " >>)
    IN  /\ Len(words) >= 2
        /\ \A i \in 1..Len(words) :
               /\ Len(words[i]) >= 2
               /\ words[i][1] \in Letters
               /\ \A j \in 2..Len(words[i]) : words[i][j] \in Letters \cup { "'", ".", "-" }

\* ACCOUNT_NUMBER_REGEX: 6 to 20 letters and digits.
ACCOUNT_NUMBER_REGEX(s) ==
    /\ Len(s) >= 6
    /\ Len(s) <= 20
    /\ \A i \in 1..Len(s) : s[i] \in Letters \cup Digits

validateAccName(name) ==
    IF ~Truthy(name) THEN FALSE
    ELSE LET accName == normalizeSpaces(name)
         IN  Len(accName) > 0 /\ ACCOUNT_NAME_REGEX(accName)

validateBankAccNo(accountNumber) ==
    IF ~Truthy(accountNumber) THEN FALSE
    ELSE LET normalizedNumber == removeSpaces(accountNumber)
         IN  /\ Len(normalizedNumber) >= 6
             /\ Len(normalizedNumber) <= 20
             /\ ACCOUNT_NUMBER_REGEX(normalizedNumber)

\* MobileContactInfo.validate()
MobileContactInfoValidate(c) ==
    /\ c.phoneNumber # Undefined
    /\ c.phoneNumber \in TZPhoneNumbers
    /\ Len(c.name) > 0

\* BankContactInfo.validate()
BankContactInfoValidate(c) ==
    /\ c.bank \in Banks
    /\ validateAccName(c.accName)
    /\ validateBankAccNo(c.accNo)

\* ------------------------------------------------------------------ JSON

\* The keys the legacy narrations carry.
JsonKeys == << "account_number", "account_name", "swift_code", "phone_number", "username" >>

KeyText(k) ==
    CASE k = "account_number" ->
             << "a", "c", "c", "o", "u", "n", "t", "_", "n", "u", "m", "b", "e", "r" >>
      [] k = "account_name" ->
             << "a", "c", "c", "o", "u", "n", "t", "_", "n", "a", "m", "e" >>
      [] k = "swift_code" ->
             << "s", "w", "i", "f", "t", "_", "c", "o", "d", "e" >>
      [] k = "phone_number" ->
             << "p", "h", "o", "n", "e", "_", "n", "u", "m", "b", "e", "r" >>
      [] k = "username" ->
             << "u", "s", "e", "r", "n", "a", "m", "e" >>

Quoted(s) == << "\"" >> \o s \o << "\"" >>

\* The JSON text of an object of strings; a key whose value is `undefined` is left out.
JsonStringify(map) ==
    LET present == SelectSeq(JsonKeys, LAMBDA k : map[k] # NoText)
        entries == [ i \in 1..Len(present) |->
                       Quoted(KeyText(present[i])) \o << ":" >> \o Quoted(map[present[i]]) ]
    IN  << "{" >> \o join(entries, << "," >>) \o << "}" >>

\* The values a legacy narration's JSON may hold under each key.
JsonValues(k) ==
    CASE k = "account_number" -> { NoText, << "1", "2", "3", "4", "5", "6", "7" >> }
      [] k = "account_name" -> { NoText, << "j", "a", "n", "e", " ", "S", "M", "I", "T", "H" >> }
      [] k = "swift_code" -> { NoText, CRDB.swiftCode, << "X", "X", "X", "X" >> }
      [] k = "phone_number" ->
             { NoText, << "0", "7", "1", "2", "3", "4", "5", "6", "7", "8" >>, << "1", "2" >> }
      [] k = "username" ->
             { NoText, << >>, << "j", "o", "h", "n", " ", " ", "D", "O", "E" >> }

NoMap == [ account_number |-> NoText, account_name |-> NoText, swift_code |-> NoText,
           phone_number |-> NoText, username |-> NoText ]

BankMaps ==
    { [ NoMap EXCEPT !.account_number = n, !.account_name = a, !.swift_code = s ] :
        n \in JsonValues("account_number"), a \in JsonValues("account_name"),
        s \in JsonValues("swift_code") }

MobileMaps ==
    { [ NoMap EXCEPT !.phone_number = p, !.username = u ] :
        p \in JsonValues("phone_number"), u \in JsonValues("username") }

JsonObjects == BankMaps \cup MobileMaps

JsonNull == [ null |-> TRUE ]

JsonNullText == << "n", "u", "l", "l" >>

\* JSON.parse(text): the value the text encodes; it throws a SyntaxError otherwise.
JsonParse(text) ==
    IF text = JsonNullText THEN [ threw |-> FALSE, value |-> JsonNull ]
    ELSE IF \E m \in JsonObjects : JsonStringify(m) = text
    THEN [ threw |-> FALSE, value |-> CHOOSE m \in JsonObjects : JsonStringify(m) = text ]
    ELSE [ threw |-> TRUE, value |-> JsonNull ]

\* ------------------------------------------------------------------ Narration

ECOBANK_PREFIX ==
    << "M", "O", "B", "I", "L", "E", " ", "T", "R", "A", "N", "S", "F", "E", "R", " " >>

BANK_NARR_PREFIX ==
    << "P", "A", "Y", "O", "U", "T", " ", "T", "O", " ", "B", "A", "N", "K" >>

LEGACY_BANK_NARR_PREFIX == << "T", "O", "_", "B", "A", "N", "K" >>

MOBILE_NARR_PREFIX ==
    << "P", "A", "Y", "O", "U", "T", " ", "T", "O", " ", "M", "O", "B", "I", "L", "E" >>

LEGACY_MOBILE_NARR_PREFIX == << "T", "O", "_", "M", "O", "M", "O" >>

\* How a block of statements ends: by throwing, by a `return`, or by running
\* off its end.
Thrown == [ threw |-> TRUE, returned |-> FALSE, value |-> Undefined ]

Returned(value) == [ threw |-> FALSE, returned |-> TRUE, value |-> value ]

FellThrough == [ threw |-> FALSE, returned |-> FALSE, value |-> Undefined ]

\* The same generator leaving the name as it was given.
generateMobilePayoutNarrationUntrimmed(data) ==
    toUpperCase(trim(MOBILE_NARR_PREFIX) \o << " " >> \o trim(PhoneLabel(data.phoneNumber))
                  \o << " " >> \o data.name)

\* Narration.generateMobilePayoutNarration(data)
generateMobilePayoutNarration(data) ==
    toUpperCase(trim(MOBILE_NARR_PREFIX) \o << " " >> \o trim(PhoneLabel(data.phoneNumber))
                  \o << " " >> \o trim(data.name))

\* Narration.generateBankPayoutNarration(data)
generateBankPayoutNarration(data) ==
    toUpperCase(trim(BANK_NARR_PREFIX) \o << " " >> \o trim(data.bank.shortName)
                  \o << " " >> \o trim(data.accNo) \o << " " >> \o trim(data.accName))

\* MobileContactInfo.is(obj): a string `name` that is not blank and a
\* `phoneNumber` that is a valid PhoneNumber.
MobileContactInfoIs(obj) ==
    /\ "name" \in DOMAIN obj
    /\ "phoneNumber" \in DOMAIN obj
    /\ obj.phoneNumber \in TZPhoneNumbers
    /\ Len(trim(obj.name)) > 0

\* BankContactInfo.is(obj): string `accName` and `accNumber` (the getter over
\* accNo) that pass validateAccName and validateBankAccNo, and a valid Bank.
BankContactInfoIs(obj) ==
    /\ "accName" \in DOMAIN obj
    /\ "accNo" \in DOMAIN obj
    /\ "bank" \in DOMAIN obj
    /\ obj.bank \in Banks
    /\ validateAccName(obj.accName)
    /\ validateBankAccNo(obj.accNo)

\* Narration.generateDefaultPayoutNarration(data)
generateDefaultPayoutNarration(data) ==
    IF MobileContactInfoIs(data) THEN generateMobilePayoutNarration(data)
    ELSE IF BankContactInfoIs(data) THEN generateBankPayoutNarration(data)
    ELSE << >>

\* The trimmed text `narr` with the Ecobank prefix taken off.
WithoutEcobank(narr) ==
    IF startsWith(narr, ECOBANK_PREFIX) THEN substring(narr, Len(ECOBANK_PREFIX)) ELSE narr

\* The text both parsers start from: trimmed, the Ecobank prefix taken off.
StripEcobank(text) == WithoutEcobank(trim(text))

\* What JSON.parse gave, read as a map: a key read from `null` throws a
\* TypeError.
ObjectOrThrow(parsed) ==
    IF parsed.threw \/ parsed.value = JsonNull
    THEN [ threw |-> TRUE, value |-> JsonNull ]
    ELSE parsed

\* `JSON.parse(pieces[1].trim())`: `pieces[1]` is `undefined` when there is
\* no "=>", and `.trim()` of it throws a TypeError.
JsonOfPieces(pieces) ==
    IF Len(pieces) < 2 THEN [ threw |-> TRUE, value |-> JsonNull ]
    ELSE ObjectOrThrow(JsonParse(trim(pieces[2])))

\* The JSON after "=>" in a legacy narration, parsed.
LegacyMap(narr) == JsonOfPieces(split(narr, << "=", ">" >>))

\* The bank contact a legacy map holds: account number, account name and a
\* known SWIFT code are all needed.
BankOfLegacyMap(parsed) ==
    IF parsed.threw THEN Thrown
    ELSE LET map == parsed.value
             accNo == map["account_number"]
             accName == map["account_name"]
             code == map["swift_code"]
             bank == BankFromSWIFTCode(code)
         IN  IF Truthy(accNo) /\ Truthy(accName) /\ bank # Undefined
             THEN Returned(BankContactInfo(accName, bank, accNo))
             ELSE FellThrough

\* getBankContactDetails, the legacy branch: "TO_BANK => {json}".
BankLegacyFormat(narr) ==
    IF ~startsWith(narr, LEGACY_BANK_NARR_PREFIX) THEN FellThrough
    ELSE BankOfLegacyMap(LegacyMap(narr))

\* The bank contact of `data`, the remainder after the prefix trimmed and
\* split on " ": bank name, account number, then the words of the name.
BankOfData(data) ==
    LET bank == BankFromBankName(At(data, 0))
        accNo == At(data, 1)
        accName == join(MapCapitalize(slice(data, 2)), << " " >>)
    IN  IF Truthy(accName) /\ Truthy(accNo) /\ bank # Undefined
        THEN Returned(BankContactInfo(accName, bank, accNo))
        ELSE FellThrough

\* getBankContactDetails, the current branch: "PAYOUT TO BANK {bank} {accNo} {accName}".
BankCurrentFormat(narr) ==
    IF ~startsWith(narr, BANK_NARR_PREFIX) THEN FellThrough
    ELSE BankOfData(split(trim(replace(narr, BANK_NARR_PREFIX, << >>)), << " " >>))

\* One `if` block after another: the second runs when the first neither
\* throws nor returns.
OrElse(first, second) == IF first.threw \/ first.returned THEN first ELSE second

\* A `try` block whose exception is caught and answered with `undefined`;
\* running off the end of the block answers `undefined` as well.
Caught(block) == IF block.threw THEN Returned(Undefined) ELSE Returned(block.value)

\* A block with no `catch` around it.
Uncaught(block) == IF block.threw THEN Thrown ELSE Returned(block.value)

\* The `try` block of getBankContactDetails.
BankTryBlock(narr) == OrElse(BankLegacyFormat(narr), BankCurrentFormat(narr))

\* The same method without its `catch`.
getBankContactDetailsUncaught(text) == Uncaught(BankTryBlock(StripEcobank(text)))

\* narration.getBankContactDetails(): the contact, or `undefined`; what the
\* `try` block throws is caught and answered with `undefined`.
getBankContactDetails(text) == Caught(BankTryBlock(StripEcobank(text)))

\* The legacy username: split on spaces, blank pieces dropped, each piece
\* capitalized, joined by single spaces.
LegacyUsername(username) ==
    LET names == SelectSeq(split(username, << " " >>), LAMBDA n : Len(trim(n)) > 0)
    IN  join(MapCapitalize(names), << " " >>)

\* The mobile contact, made when the phone number parses and the name is not empty.
MobileOf(username, phoneNumber) ==
    IF phoneNumber # Undefined /\ Truthy(username)
    THEN Returned(MobileContactInfo(username, phoneNumber))
    ELSE FellThrough

\* The mobile contact a legacy map holds; a missing username counts as "".
MobileOfLegacyMap(parsed) ==
    IF parsed.threw THEN Thrown
    ELSE MobileOf(LegacyUsername(IF parsed.value["username"] = NoText
                                 THEN << >> ELSE parsed.value["username"]),
                  TZPhoneNumberFrom(parsed.value["phone_number"]))

\* getMobileContactDetails, the legacy branch: "TO_MOMO => {json}".
MobileLegacyFormat(narr) ==
    IF ~startsWith(narr, LEGACY_MOBILE_NARR_PREFIX) THEN FellThrough
    ELSE MobileOfLegacyMap(LegacyMap(narr))

\* The mobile contact of `data`, the remainder after the prefix trimmed and
\* split on " ": the phone number, then the words of the name.
MobileOfData(data) ==
    MobileOf(join(MapCapitalize(slice(data, 1)), << " " >>), TZPhoneNumberFrom(At(data, 0)))

\* getMobileContactDetails, the current branch: "PAYOUT TO MOBILE {phone} {username}".
MobileCurrentFormat(narr) ==
    IF ~startsWith(narr, MOBILE_NARR_PREFIX) THEN FellThrough
    ELSE MobileOfData(split(trim(replace(narr, MOBILE_NARR_PREFIX, << >>)), << " " >>))

\* The `try` block of getMobileContactDetails.
MobileTryBlock(narr) == OrElse(MobileLegacyFormat(narr), MobileCurrentFormat(narr))

\* narration.getMobileContactDetails()
getMobileContactDetails(text) == Caught(MobileTryBlock(StripEcobank(text)))

\* The same method answering with the bank parse alone.
getContactDetailsBankOnly(text) == Uncaught(getBankContactDetails(text))

\* The first of the two results that is a contact, `undefined` when neither is.
FirstDefined(result1, result2) ==
    IF result1.threw \/ result2.threw THEN Thrown
    ELSE IF result1.value # Undefined THEN Returned(result1.value)
    ELSE IF result2.value # Undefined THEN Returned(result2.value)
    ELSE Returned(Undefined)

\* narration.getContactDetails(): both parses are made, the bank result is
\* preferred.
getContactDetails(text) ==
    FirstDefined(getBankContactDetails(text), getMobileContactDetails(text))

\* ------------------------------------------------------------------ narrations and contacts at hand

Space == << " " >>

Arrow == << " ", "=", ">", " " >>

AccountNumber == << "1", "2", "3", "4", "5", "6", "7" >>

Jane == << "j", "a", "n", "e" >>

Smith == << "S", "M", "I", "T", "H" >>

John == << "j", "O", "h", "N" >>

Doe == << "d", "o", "e" >>

\* What follows a legacy prefix: nothing, an arrow and nothing, malformed
\* JSON, `null`, or an object with some of its keys.
LegacyRemainders(maps) ==
    { << >>, Arrow, Arrow \o << "{", "o" >>, Arrow \o JsonNullText }
      \cup { Arrow \o JsonStringify(m) : m \in maps }

\* What follows "PAYOUT TO BANK".
BankRemainders ==
    { << >>,
      Space,
      Space \o CRDB.shortName,
      Space \o CRDB.shortName \o Space \o AccountNumber,
      Space \o CRDB.shortName \o Space \o AccountNumber \o Space \o Jane \o Space \o Smith,
      Space \o NMB.shortName \o Space \o AccountNumber \o Space \o Jane,
      CRDB.shortName \o Space \o AccountNumber \o Space \o Jane,
      Space \o << "X", "X", "X", "X" >> \o Space \o AccountNumber \o Space \o Jane,
      Space \o CRDB.shortName \o Space \o Space \o AccountNumber \o Space \o Jane,
      Space \o CRDB.shortName \o Space \o AccountNumber \o Space \o Jane \o Space \o Space \o Smith,
      Space \o CRDB.shortName \o << "\t" >> \o AccountNumber \o << "\t" >> \o Jane }

\* What follows "PAYOUT TO MOBILE".
MobileRemainders ==
    LET phone == CHOOSE p \in TZPhoneNumbers : p.compactNumber[1] = "7"
    IN  { << >>,
          Space \o PhoneLabel(phone),
          Space \o PhoneLabel(phone) \o Space \o John \o Space \o Doe,
          Space \o << "0" >> \o phone.compactNumber \o Space \o John,
          Space \o << "1", "2" >> \o Space \o John,
          Space \o Space \o PhoneLabel(phone) \o Space \o John,
          Space \o PhoneLabel(phone) \o Space \o Space \o John }

\* Narration texts of every vintage, with and without the Ecobank prefix
\* and surrounding blanks, and texts that are no narration at all.
NarrationTexts ==
    LET bodies ==
            { LEGACY_BANK_NARR_PREFIX \o r : r \in LegacyRemainders(BankMaps) }
              \cup { LEGACY_MOBILE_NARR_PREFIX \o r : r \in LegacyRemainders(MobileMaps) }
              \cup { BANK_NARR_PREFIX \o r : r \in BankRemainders }
              \cup { MOBILE_NARR_PREFIX \o r : r \in MobileRemainders }
    IN  bodies
          \cup { ECOBANK_PREFIX \o b : b \in bodies }
          \cup { << >>, Space \o Space, << "h", "i" >>, << "=", ">" >>,
                 Space \o BANK_NARR_PREFIX \o Space \o CRDB.shortName \o Space
                    \o AccountNumber \o Space \o Jane \o Space }

\* Names a mobile contact may carry: any string.
MobileNames ==
    { John \o Space \o Doe,
      toUpperCase(John),
      John \o Space \o Space \o Doe,
      Space \o John,
      John \o Space,
      Space }

MobileContacts ==
    { MobileContactInfo(n, p) : n \in MobileNames, p \in TZPhoneNumbers }

AccountNames ==
    { Jane \o Space \o Smith,
      Jane \o Space \o Space \o Smith,
      << "A", "n", "n", "-", "m", "a", "y" >> \o Space \o Doe,
      Jane }

AccountNumbers ==
    { AccountNumber,
      << "a", "b", "c", "1", "2", "3", "4" >>,
      << "1", "2", "3", " ", "4", "5", "6", "7" >>,
      << "1", "2", "3", "4", "-", "5", "6", "7" >>,
      << "1", "2", "3", "4", "5" >> }

BankContacts ==
    { BankContactInfo(a, b, n) : a \in AccountNames, b \in Banks, n \in AccountNumbers }

\* The narration of the contact at hand is generated, by the generator of its type.
GenerateNarration ==
    /\ subject.contact # Undefined
    /\ subject.text = NoText
    /\ subject' =
         [ subject EXCEPT !.text =
             IF subject.contact.type = "Mobile"
             THEN generateMobilePayoutNarration(subject.contact)
             ELSE generateBankPayoutNarration(subject.contact) ]
    /\ lastEvent' = Event(IF subject.contact.type = "Mobile"
                          THEN "generateMobilePayoutNarration"
                          ELSE "generateBankPayoutNarration",
                          NoFacade, "returned", {}, Undefined)
    /\ UNCHANGED << authVars, tasks, reqs, answers >>

\* Objects that are neither a MobileContactInfo nor a BankContactInfo.
OtherObjects ==
    { [ type |-> "Other" ], [ type |-> "Other", name |-> John \o Space \o Doe ] }

\* The narration of a mobile or bank contact is generated by the generator
\* of its type.
GenerateTypedNarration ==
    /\ subject.contact # Undefined
    /\ subject.contact.type \in { "Mobile", "Bank" }
    /\ GenerateNarration

\* The narration of the value at hand is generated by
\* generateDefaultPayoutNarration.
GenerateDefaultNarration ==
    /\ subject.contact # Undefined
    /\ subject.text = NoText
    /\ subject' = [ subject EXCEPT !.text = generateDefaultPayoutNarration(subject.contact) ]
    /\ lastEvent' = Event("generateDefaultPayoutNarration", NoFacade, "returned", {}, Undefined)
    /\ UNCHANGED << authVars, tasks, reqs, answers >>

\* What a call of a parsing method leaves behind for its caller.
ParseEvent(method, outcome) ==
    Event(method, NoFacade, IF outcome.threw THEN "threw" ELSE "returned", {}, Undefined)

\* Each of the three parsing methods is called on the narration at hand; the
\* caller sees what it returns, or the exception that comes out of it.
GetBankContactDetails ==
    /\ subject.text # NoText
    /\ answers' = answers \cup { << "getBankContactDetails", getBankContactDetails(subject.text) >> }
    /\ lastEvent' = ParseEvent("getBankContactDetails", getBankContactDetails(subject.text))
    /\ UNCHANGED << authVars, tasks, reqs, subject >>

GetMobileContactDetails ==
    /\ subject.text # NoText
    /\ answers' = answers \cup { << "getMobileContactDetails", getMobileContactDetails(subject.text) >> }
    /\ lastEvent' = ParseEvent("getMobileContactDetails", getMobileContactDetails(subject.text))
    /\ UNCHANGED << authVars, tasks, reqs, subject >>

GetContactDetails ==
    /\ subject.text # NoText
    /\ answers' = answers \cup { << "getContactDetails", getContactDetails(subject.text) >> }
    /\ lastEvent' = ParseEvent("getContactDetails", getContactDetails(subject.text))
    /\ UNCHANGED << authVars, tasks, reqs, subject >>

\* ------------------------------------------------------------------ APIError and handleResponse

\* `undefined` for the optional error code of an APIError.
NoErrorCode == "undefined"

\* new APIError(args): message and statusCode are taken from args; `error`
\* is assigned only `if (this.error)`, which reads the field being set, still
\* undefined in the constructor; `details` is assigned when args has them.
APIError(args) ==
    [ name |-> "ApiError",
      message |-> args.message,
      statusCode |-> args.statusCode,
      error |-> NoErrorCode,
      details |-> IF args.details # Undefined THEN args.details ELSE Undefined ]

\* The arguments of the error thrown for a status that is neither the
\* success status nor 400.
UnknownErrorArgs ==
    [ message |-> "We encountered an error trying to process your request. Please try again later",
      statusCode |-> 520,
      error |-> "UNKNOWN ERROR",
      details |-> Undefined ]

\* The same method answering every failure with the 520 error.
handleResponseAlways520(result, successStatusCode) ==
    IF successStatusCode = result.status
    THEN [ threw |-> FALSE, value |-> result.body ]
    ELSE [ threw |-> TRUE, value |-> APIError(UnknownErrorArgs) ]

\* handleResponse(result, successStatusCode), with the error it throws.
handleResponse(result, successStatusCode) ==
    IF successStatusCode = result.status
    THEN [ threw |-> FALSE, value |-> result.body ]
    ELSE IF result.status = 400
    THEN [ threw |-> TRUE, value |-> APIError(result.body) ]
    ELSE [ threw |-> TRUE, value |-> APIError(UnknownErrorArgs) ]

\* The bodies of 400 responses: statusCode, message, and optionally an error
\* code and a details map.
ErrorBodies ==
    [ message : { "Invalid phone number", "Validation failed" },
      statusCode : { 400, 422 },
      error : { NoErrorCode, "BAD_REQUEST" },
      details : { Undefined, [ phone |-> "must be a valid phone number" ] } ]

\* Responses of the HTTP client: a status and a body.
Responses ==
    [ status : { 200, 201, 400, 401, 500 }, body : ErrorBodies ]
      \cup [ status : { 200, 201, 500 }, body : { [ data |-> "payload" ] } ]

\* The success status codes endpoints are handled with.
SuccessStatusCodes == { 200, 201 }

\* repository.handleResponse(result, successStatusCode) is called on the
\* response at hand.
HandleResponseCall ==
    /\ answers' = answers \cup
         { << "handleResponse",
              handleResponse(subject.result, subject.successStatusCode) >> }
    /\ lastEvent' =
         Event("handleResponse", NoFacade,
               IF handleResponse(subject.result, subject.successStatusCode).threw
               THEN "threw" ELSE "returned", {}, Undefined)
    /\ UNCHANGED << authVars, tasks, reqs, subject >>

\* new APIError(body) is constructed from the body at hand.
NewAPIError ==
    /\ subject.result.body \in ErrorBodies
    /\ answers' = answers \cup { << "APIError", APIError(subject.result.body) >> }
    /\ lastEvent' = Event("APIError", NoFacade, "returned", {}, Undefined)
    /\ UNCHANGED << authVars, tasks, reqs, subject >>

\* ------------------------------------------------------------------ bank contacts to validate

\* Account numbers a bank contact may be given: of every length around the
\* limits, with letters, with blanks inside and after, with other characters.
AccountNumberInputs ==
    { << "1", "2", "3", "4", "5", "6" >>,
      << "a", "b", "c", "1", "2", "3", "4" >>,
      << "A", "B", "C", "1", "2", "3", "D", "E", "F", "4", "5", "6" >>,
      << "1", "2", "3", " ", "4", "5", "6", "7" >>,
      << "1", "2", "3", "\t", "4", "5", "6", "7" >>,
      << "1", "2", " ", "3", "4", " ", "5" >>,
      << "1", "2", "3", "4", "-", "5", "6", "7" >>,
      << "1", "2", "3", "4", "5" >>,
      << "1", "2", "3", "4", "5", "6", "7", "8", "9", "0", "1", "2", "3", "4", "5", "6", "7", "8", "9", "0" >>,
      << "1", "2", "3", "4", "5", "6", "7", "8", "9", "0", "1", "2", "3", "4", "5", "6", "7", "8", "9", "0", "1" >>,
      << "1", "2", "3", "4", "5", "6", " ", " " >>,
      << "@", "A", "B", "C", "1", "2", "3" >>,
      << >> }

ValidatedContacts ==
    { BankContactInfo(a, b, n) : a \in AccountNames, b \in Banks, n \in AccountNumberInputs }

\* validateBankAccNo is called on the contact's account number.
ValidateBankAccNo ==
    /\ answers' = answers \cup { << "validateBankAccNo", validateBankAccNo(subject.contact.accNo) >> }
    /\ lastEvent' = Event("validateBankAccNo", NoFacade, "returned", {}, Undefined)
    /\ UNCHANGED << authVars, tasks, reqs, subject >>

\* contact.validate() is called.
ValidateBankContactInfo ==
    /\ answers' = answers \cup { << "BankContactInfo.validate", BankContactInfoValidate(subject.contact) >> }
    /\ lastEvent' = Event("BankContactInfo.validate", NoFacade, "returned", {}, Undefined)
    /\ UNCHANGED << authVars, tasks, reqs, subject >>

\* ------------------------------------------------------------------ wallet session operations

\* Wallet objects a caller may hold: the wallets of the accounts, and an
\* object Wallet.is refuses.
WalletObjects ==
    UNION { { WalletsOf(tok)[i] : i \in 1..Len(WalletsOf(tok)) } : tok \in Tokens }

InvalidWallet == [ id |-> "w9", countryCode |-> "UG", ok |-> FALSE ]

\* Lists setWallets may be handed.
WalletLists ==
    { WalletsOf(tok) : tok \in Tokens }
      \cup { << >>, << InvalidWallet >>,
             << InvalidWallet, WalletsOf("t1")[2], WalletsOf("t1")[1] >> }

CountryCodes == { "TZ", "KE", "UG" }

\* _getWalletsByCountry(countryCode)
GetWalletsByCountry(ws, countryCode) ==
    SelectSeq(ws.wallets, LAMBDA w : w.countryCode = countryCode)

\* useWalletStore.setSelectedWallet(wallet): the new store state, or a throw.
SetSelectedWallet(ws, w) ==
    IF ~WalletIs(w) THEN [ threw |-> TRUE, state |-> ws ]
    ELSE IF ~\E i \in 1..Len(ws.wallets) : ws.wallets[i].id = w.id
    THEN [ threw |-> TRUE, state |-> ws ]
    ELSE [ threw |-> FALSE,
           state |-> [ ws EXCEPT !.selectedWalletId = w.id,
                                 !.selectedCountryCode = w.countryCode ] ]

\* The same action setting the country and leaving the selected wallet.
SetSelectedCountryCodeOnly(ws, countryCode) ==
    IF Len(GetWalletsByCountry(ws, countryCode)) = 0
    THEN [ threw |-> TRUE, state |-> ws ]
    ELSE [ threw |-> FALSE, state |-> [ ws EXCEPT !.selectedCountryCode = countryCode ] ]

\* setSelectedCountry writing the country before it checks for wallets.
SetSelectedCountryWriteFirst(ws, countryCode) ==
    LET countryWallets == GetWalletsByCountry(ws, countryCode)
    IN  IF Len(countryWallets) = 0
        THEN [ threw |-> TRUE, state |-> [ ws EXCEPT !.selectedCountryCode = countryCode ] ]
        ELSE [ threw |-> FALSE,
               state |-> [ ws EXCEPT !.selectedCountryCode = countryCode,
                                     !.selectedWalletId = countryWallets[1].id ] ]

\* useWalletStore.setSelectedCountry(countryCode): the new store state, or a throw.
SetSelectedCountry(ws, countryCode) ==
    LET countryWallets == GetWalletsByCountry(ws, countryCode)
    IN  IF Len(countryWallets) = 0 THEN [ threw |-> TRUE, state |-> ws ]
        ELSE [ threw |-> FALSE,
               state |-> [ ws EXCEPT !.selectedCountryCode = countryCode,
                                     !.selectedWalletId = countryWallets[1].id ] ]

\* A store action ran on the wallet store and returned or threw.
StoreActed(op, result) ==
    /\ wallet' = result.state
    /\ lastEvent' = Event(op, NoFacade, IF result.threw THEN "Error" ELSE "returned",
                          {}, Undefined)
    /\ UNCHANGED << instance, current, facades, serverUser, serverToken, clientUser,
                    authToken, wsm, tasks, reqs, subject, answers >>

\* useWalletStore.getState().setWallets(wallets)
StoreSetWallets(wallets) ==
    /\ StoreActed("setWallets", SetWallets(wallet, wallets))

\* useWalletActions().setSelectedWallet(wallet)
StoreSetSelectedWallet(w) ==
    /\ StoreActed("setSelectedWallet", SetSelectedWallet(wallet, w))

\* useWalletActions().setSelectedCountry(countryCode)
StoreSetSelectedCountry(countryCode) ==
    /\ StoreActed("setSelectedCountry", SetSelectedCountry(wallet, countryCode))

\* useWalletActions().reset()
StoreReset ==
    /\ StoreActed("reset", [ threw |-> FALSE, state |-> InitialWallet ])

\* WalletSessionManager.instance.reset()
ManagerReset ==
    /\ SetWorld(WalletReset(WsmInstance(World)))
    /\ lastEvent' = Event("WalletSessionManager.reset", NoFacade, "returned", {}, Undefined)
    /\ UNCHANGED << tasks, reqs, subject, answers >>

\* WalletSessionManager.instance.changeWallet(walletId)
ChangeWallet(walletId) ==
    LET w == WsmInstance(World)
        found == { i \in 1..Len(w.wallet.wallets) : w.wallet.wallets[i].id = walletId }
        first == CHOOSE i \in found : \A j \in found : i <= j
        r == SetSelectedWallet(w.wallet, w.wallet.wallets[first])
    IN  /\ IF ~w.wallet.isInitialized \/ found = {}
           THEN /\ SetWorld(w)
                /\ lastEvent' = Event("changeWallet", NoFacade, "Error", {}, Undefined)
           ELSE /\ SetWorld([ w EXCEPT !.wallet = r.state ])
                /\ lastEvent' = Event("changeWallet", NoFacade,
                                      IF r.threw THEN "Error" ELSE "returned", {}, Undefined)
        /\ UNCHANGED << tasks, reqs, subject, answers >>

\* WalletSessionManager.instance.changeCountry(countryCode)
ChangeCountry(countryCode) ==
    LET w == WsmInstance(World)
        r == SetSelectedCountry(w.wallet, countryCode)
    IN  /\ IF ~w.wallet.isInitialized
           THEN /\ SetWorld(w)
                /\ lastEvent' = Event("changeCountry", NoFacade, "Error", {}, Undefined)
           ELSE /\ SetWorld([ w EXCEPT !.wallet = r.state ])
                /\ lastEvent' = Event("changeCountry", NoFacade,
                                      IF r.threw THEN "Error" ELSE "returned", {}, Undefined)
        /\ UNCHANGED << tasks, reqs, subject, answers >>

\* WalletSessionManager.instance.initialize(), up to the await of the wallet fetch.
InitializeCall(t) ==
    /\ Free(t)
    /\ LET r == WsmInitialize(World)
       IN  /\ SetWorld(r.world)
           /\ IF r.step = "fetch"
              THEN /\ tasks' = [ tasks EXCEPT ![t] =
                        [ kind |-> "initialize", pc |-> "wallets", walletToken |-> r.token ] ]
                   /\ lastEvent' = Event("initialize", NoFacade, "pending", { "wallets" },
                                         Undefined)
              ELSE /\ tasks' = tasks
                   /\ lastEvent' = Event("initialize", NoFacade,
                                         IF r.step = "already" THEN "resolved" ELSE "Error",
                                         {}, Undefined)
    /\ UNCHANGED << reqs, subject, answers >>

\* WalletSessionManager.instance.refreshWallets(), up to the await of the wallet fetch.
RefreshWalletsCall(t) ==
    /\ Free(t)
    /\ LET w == WsmInstance(World)
           c == RepoClient(w, w.wsm.auth)
       IN  /\ SetWorld(c.world)
           /\ tasks' = [ tasks EXCEPT ![t] =
                [ kind |-> "refreshWallets", pc |-> "wallets", walletToken |-> c.token ] ]
           /\ lastEvent' = Event("refreshWallets", NoFacade, "pending", { "wallets" }, Undefined)
    /\ UNCHANGED << reqs, subject, answers >>

\* The wallet fetch of initialize() or refreshWallets() answers: the wallets
\* are stored with setWallets, or the call rejects and the store is left alone.
RefreshWalletsResponse(t, status, body) ==
    /\ tasks[t].kind \in { "initialize", "refreshWallets" }
    /\ tasks[t].pc = "wallets"
    /\ status = 200 => tasks[t].walletToken \in Tokens
    /\ body \in WalletBodies(tasks[t].walletToken)
    /\ LET r == RefreshWalletsDone(World, status, body)
       IN  /\ SetWorld(r.world)
           /\ lastEvent' = OnStatus(Event(tasks[t].kind, NoFacade,
                                          IF r.threw THEN "Error" ELSE "resolved", {},
                                          Undefined), status)
    /\ tasks' = [ tasks EXCEPT ![t] = Idle ]
    /\ UNCHANGED << reqs, subject, answers >>

\* ------------------------------------------------------------------ wallet session getters

\* What a getter gives its caller: a value, or the Error it throws.
Gave(value) == [ threw |-> FALSE, value |-> value ]

ThrewError == [ threw |-> TRUE, value |-> Undefined ]

\* Country.fromCode(code): the Country of a known code, else undefined.
CountryFromCode(code) == IF code \in CountryCodes THEN [ code |-> code ] ELSE Undefined

\* getUniqueCountries(wallets): the country codes of the wallets, each once.
getUniqueCountries(wallets) == { wallets[i].countryCode : i \in 1..Len(wallets) }

\* A getter that hands out the placeholder list before initialization.
ManagerGetWalletsUnguarded(ws) == Gave(ws.wallets)

\* WalletSessionManager.getWallets()
ManagerGetWallets(ws) == IF ~ws.isInitialized THEN ThrewError ELSE Gave(ws.wallets)

\* WalletSessionManager.getCountries()
ManagerGetCountries(ws) ==
    IF ManagerGetWallets(ws).threw THEN ThrewError
    ELSE Gave(getUniqueCountries(ManagerGetWallets(ws).value))

\* WalletSessionManager.getWalletsByCountry(countryCode)
ManagerGetWalletsByCountry(ws, countryCode) ==
    IF ~ws.isInitialized THEN ThrewError ELSE Gave(GetWalletsByCountry(ws, countryCode))

\* _getSelectedWallet(): the wallet whose id is selected; it throws before
\* initialization, on the placeholder id, and when no wallet has the id.
GetSelectedWallet(ws) ==
    IF ~ws.isInitialized THEN ThrewError
    ELSE IF ws.selectedWalletId = initialSelectedWalletId THEN ThrewError
    ELSE IF ~\E i \in 1..Len(ws.wallets) : ws.wallets[i].id = ws.selectedWalletId
    THEN ThrewError
    ELSE Gave(ws.wallets[CHOOSE i \in 1..Len(ws.wallets) :
                  /\ ws.wallets[i].id = ws.selectedWalletId
                  /\ \A j \in 1..(i - 1) : ws.wallets[j].id # ws.selectedWalletId])

\* WalletSessionManager.getSelectedCountryCode()
ManagerGetSelectedCountryCode(ws) ==
    IF ~ws.isInitialized THEN ThrewError ELSE Gave(ws.selectedCountryCode)

\* WalletSessionManager.getSelectedCountry()
ManagerGetSelectedCountry(ws) ==
    IF ManagerGetSelectedCountryCode(ws).threw THEN ThrewError
    ELSE IF CountryFromCode(ManagerGetSelectedCountryCode(ws).value) = Undefined
    THEN ThrewError
    ELSE Gave(CountryFromCode(ManagerGetSelectedCountryCode(ws).value))

\* The event of a getter of WalletSessionManager.instance: what it gave is
\* kept as the event's input.
GetterEvent(op, result) ==
    [ Event(op, NoFacade, IF result.threw THEN "Error" ELSE "returned", {}, Undefined)
        EXCEPT !.input = result ]

\* WalletSessionManager.instance.getWallets()
GetWallets ==
    /\ SetWorld(WsmInstance(World))
    /\ lastEvent' = GetterEvent("getWallets", ManagerGetWallets(wallet))
    /\ UNCHANGED << tasks, reqs, subject, answers >>

\* WalletSessionManager.instance.getCountries()
GetCountries ==
    /\ SetWorld(WsmInstance(World))
    /\ lastEvent' = GetterEvent("getCountries", ManagerGetCountries(wallet))
    /\ UNCHANGED << tasks, reqs, subject, answers >>

\* WalletSessionManager.instance.getWalletsByCountry(countryCode)
GetWalletsByCountryCall(countryCode) ==
    /\ SetWorld(WsmInstance(World))
    /\ lastEvent' = GetterEvent("getWalletsByCountry",
                                ManagerGetWalletsByCountry(wallet, countryCode))
    /\ UNCHANGED << tasks, reqs, subject, answers >>

\* WalletSessionManager.instance.getSelectedWallet()
GetSelectedWalletCall ==
    /\ SetWorld(WsmInstance(World))
    /\ lastEvent' = GetterEvent("getSelectedWallet", GetSelectedWallet(wallet))
    /\ UNCHANGED << tasks, reqs, subject, answers >>

\* WalletSessionManager.instance.getSelectedCountryCode()
GetSelectedCountryCode ==
    /\ SetWorld(WsmInstance(World))
    /\ lastEvent' = GetterEvent("getSelectedCountryCode", ManagerGetSelectedCountryCode(wallet))
    /\ UNCHANGED << tasks, reqs, subject, answers >>

\* WalletSessionManager.instance.getSelectedCountry()
GetSelectedCountry ==
    /\ SetWorld(WsmInstance(World))
    /\ lastEvent' = GetterEvent("getSelectedCountry", ManagerGetSelectedCountry(wallet))
    /\ UNCHANGED << tasks, reqs, subject, answers >>

\* ------------------------------------------------------------------ specification

NoRequests ==
  [ r \in RequestIds |->
      [ pc |-> "none", token |-> "", facade |-> NoFacade, auth |-> NoFacade,
        permFrom |-> NoFacade, tokenFrom |-> NoFacade, sentToken |-> "" ] ]

NoSubject == [ access |-> {}, user |-> Undefined ]

InitAuth ==
  /\ instance = NoFacade
  /\ current = NoFacade
  /\ facades = << >>
  /\ serverUser = << >>
  /\ serverToken = << >>
  /\ clientUser = Undefined
  /\ authToken = NoToken
  /\ wallet = InitialWallet
  /\ wsm = [ created |-> FALSE, auth |-> NoFacade ]
  /\ tasks = [ t \in TaskIds |-> Idle ]
  /\ lastEvent = NoEvent

Init ==
  /\ InitAuth
  /\ reqs = NoRequests
  /\ subject = NoSubject
  /\ answers = {}

Next ==
  \/ InstanceRead
  \/ \E t \in TaskIds, f \in FacadeIds(World), id \in Identities : LogInCall(t, f, id)
  \/ \E t \in TaskIds, status \in { 201, 400, 500 } : LogInResponse(t, status)
  \/ \E t \in TaskIds, status \in { 200, 500 } : IdentityResponse(t, status)
  \/ \E t \in TaskIds, status \in { 200, 500 } :
       \E body \in AllWalletBodies : WalletsResponse(t, status, body)
  \/ \E f \in FacadeIds(World) : LogOut(f)
  \/ \E t \in TaskIds, f \in FacadeIds(World) : ResetPasswordCall(t, f)
  \/ \E t \in TaskIds, status \in { 200, 400, 500 } : ResetPasswordResponse(t, status)
  \/ \E t \in TaskIds, token \in Tokens \cup { "" } : InitializeServerCall(t, token)
  \/ \E t \in TaskIds, name \in FetchNames, answer \in FetchAnswers : FetchArrive(t, name, answer)
  \/ \E t \in TaskIds, name \in FetchNames : FetchReject(t, name)

Spec == Init /\ [][Next]_vars

\* A User built from each access list, asked and stored in any order.
InitUser ==
  /\ InitAuth
  /\ reqs = NoRequests
  /\ subject \in { [ access |-> a, user |-> Undefined ] : a \in AccessLists }
  /\ answers = {}

NextUser ==
  \/ BuildUser
  \/ \E p \in AskedStrings : AskCan(p)
  \/ RoundTrip

SpecUser == InitUser /\ [][NextUser]_vars

\* A payout record of each kind, made a Payout and read.
InitPayout ==
  /\ InitAuth
  /\ reqs = NoRequests
  /\ subject \in { [ data |-> d, payout |-> Undefined ] : d \in PayoutRecords }
  /\ answers = {}

NextPayout ==
  \/ PayoutCreate
  \/ ReadStatus
  \/ ReadTransactionStatus

SpecPayout == InitPayout /\ [][NextPayout]_vars

\* One session at a time, with the repositories built and called on top of it.
NextClient ==
  \/ InstanceRead
  \/ \E t \in ClientTaskIds, f \in FacadeIds(World), id \in Identities : LogInCall(t, f, id)
  \/ \E t \in ClientTaskIds, status \in { 201, 400, 500 } : LogInResponse(t, status)
  \/ \E t \in ClientTaskIds, status \in { 200, 500 } : IdentityResponse(t, status)
  \/ \E t \in ClientTaskIds, status \in { 200, 500 } :
       \E body \in AllWalletBodies : WalletsResponse(t, status, body)
  \/ \E f \in FacadeIds(World) : LogOut(f)
  \/ \E t \in ClientTaskIds, token \in Tokens : InitializeServerCall(t, token)
  \/ \E t \in ClientTaskIds, name \in FetchNames, answer \in FetchAnswers : FetchArrive(t, name, answer)
  \/ \E t \in ClientTaskIds, name \in FetchNames : FetchReject(t, name)
  \/ \E op \in GatedOps : \E rangeOk \in RangeInputs(op) : RepositoryCall(op, rangeOk)

SpecClient == Init /\ [][NextClient]_vars

\* The server runtime: concurrent request handlers, each with its own token.
NextRepo ==
  \/ \E r \in RequestIds, t \in TaskIds, token \in Tokens : RequestStart(r, t, token)
  \/ \E t \in TaskIds, name \in FetchNames, answer \in FetchAnswers : FetchArrive(t, name, answer)
  \/ \E t \in TaskIds, name \in FetchNames : FetchReject(t, name)
  \/ \E r \in RequestIds : RequestBuild(r)
  \/ \E r \in RequestIds, op \in GatedOps : \E rangeOk \in RangeInputs(op) : RequestCall(r, op, rangeOk)
  \/ \E f \in FacadeIds(World) : LogOut(f)
  \/ InstanceRead

SpecRepo == Init /\ [][NextRepo]_vars

\* A narration text of any vintage, or a contact a narration is generated
\* from, parsed by each of the three methods.
InitNarration ==
  /\ InitAuth
  /\ reqs = NoRequests
  /\ subject \in { [ text |-> t, contact |-> Undefined ] : t \in NarrationTexts }
                   \cup { [ text |-> NoText, contact |-> c ] : c \in MobileContacts \cup BankContacts }
  /\ answers = {}

NextNarration ==
  \/ GenerateNarration
  \/ GetBankContactDetails
  \/ GetMobileContactDetails
  \/ GetContactDetails

SpecNarration == InitNarration /\ [][NextNarration]_vars

\* A contact of either type, or an object of neither, handed to the generator
\* of its type or to generateDefaultPayoutNarration.
InitDefaultNarration ==
  /\ InitAuth
  /\ reqs = NoRequests
  /\ subject \in { [ text |-> NoText, contact |-> c ] :
                     c \in MobileContacts \cup BankContacts \cup OtherObjects }
  /\ answers = {}

NextDefaultNarration ==
  \/ GenerateTypedNarration
  \/ GenerateDefaultNarration

SpecDefaultNarration == InitDefaultNarration /\ [][NextDefaultNarration]_vars

\* A response of each kind, handled with each success status; an APIError
\* made of each error body.
InitResponse ==
  /\ InitAuth
  /\ reqs = NoRequests
  /\ subject \in [ result : Responses, successStatusCode : SuccessStatusCodes ]
  /\ answers = {}

NextResponse ==
  \/ HandleResponseCall
  \/ NewAPIError

SpecResponse == InitResponse /\ [][NextResponse]_vars

\* A bank contact with each account number, validated.
InitValidation ==
  /\ InitAuth
  /\ reqs = NoRequests
  /\ subject \in { [ contact |-> c ] : c \in ValidatedContacts }
  /\ answers = {}

NextValidation ==
  \/ ValidateBankAccNo
  \/ ValidateBankContactInfo

SpecValidation == InitValidation /\ [][NextValidation]_vars

\* The wallet session: sessions logged in and out, and the wallet store and
\* its manager driven by their callers meanwhile.
NextWallet ==
  \/ InstanceRead
  \/ \E t \in TaskIds, f \in FacadeIds(World), id \in Identities : LogInCall(t, f, id)
  \/ \E t \in TaskIds, status \in { 201, 500 } : LogInResponse(t, status)
  \/ \E t \in TaskIds, status \in { 200, 500 } : IdentityResponse(t, status)
  \/ \E t \in TaskIds, status \in { 200, 500 } :
       \E body \in AllWalletBodies : WalletsResponse(t, status, body)
  \/ \E f \in FacadeIds(World) : LogOut(f)
  \/ \E wallets \in WalletLists : StoreSetWallets(wallets)
  \/ \E w \in WalletObjects \cup { InvalidWallet } : StoreSetSelectedWallet(w)
  \/ \E countryCode \in CountryCodes : StoreSetSelectedCountry(countryCode)
  \/ StoreReset
  \/ ManagerReset
  \/ \E w \in WalletObjects : ChangeWallet(w.id)
  \/ \E countryCode \in CountryCodes : ChangeCountry(countryCode)
  \/ \E t \in TaskIds : InitializeCall(t)
  \/ \E t \in TaskIds : RefreshWalletsCall(t)
  \/ \E t \in TaskIds, status \in { 200, 500 } :
       \E body \in AllWalletBodies : RefreshWalletsResponse(t, status, body)

SpecWallet == Init /\ [][NextWallet]_vars

\* The wallet session as its manager's callers see it: one client session
\* logged in and out, the manager's initialize and refreshWallets, its
\* getters and its two selection actions.
NextSession ==
  \/ InstanceRead
  \/ \E t \in TaskIds, f \in FacadeIds(World), id \in Identities : LogInCall(t, f, id)
  \/ \E t \in TaskIds, status \in { 201, 500 } : LogInResponse(t, status)
  \/ \E t \in TaskIds, status \in { 200, 500 } : IdentityResponse(t, status)
  \/ \E t \in TaskIds, status \in { 200, 500 } :
       \E body \in AllWalletBodies : WalletsResponse(t, status, body)
  \/ \E f \in FacadeIds(World) : LogOut(f)
  \/ ManagerReset
  \/ \E t \in TaskIds : InitializeCall(t)
  \/ \E t \in TaskIds : RefreshWalletsCall(t)
  \/ \E t \in TaskIds, status \in { 200, 500 } :
       \E body \in AllWalletBodies : RefreshWalletsResponse(t, status, body)
  \/ GetWallets
  \/ GetCountries
  \/ \E countryCode \in CountryCodes : GetWalletsByCountryCall(countryCode)
  \/ GetSelectedWalletCall
  \/ GetSelectedCountryCode
  \/ GetSelectedCountry
  \/ \E w \in WalletObjects : ChangeWallet(w.id)
  \/ \E countryCode \in CountryCodes : ChangeCountry(countryCode)

SpecSession == Init /\ [][NextSession]_vars

\* logIn running alone: one call at a time on the client session, each
\* preceded by the caller's reading of the session, nothing else in between.
NextLogIn ==
  \/ InstanceRead
  \/ \E t \in ClientTaskIds, f \in FacadeIds(World), id \in Identities :
       ReadSessionAndLogIn(t, f, id)
  \/ \E t \in ClientTaskIds, status \in { 201, 400, 401, 500 } : LogInResponse(t, status)
  \/ \E t \in ClientTaskIds, status \in { 200, 401, 500 } : IdentityResponse(t, status)
  \/ \E t \in ClientTaskIds, status \in { 200, 401, 500 } :
       \E body \in AllWalletBodies : WalletsResponse(t, status, body)

SpecLogIn == Init /\ [][NextLogIn]_vars

\* Repositories built at module load and used later, beside a client session
\* and a server facade.
NextModuleRepo ==
  \/ InstanceRead
  \/ \E t \in ClientTaskIds, f \in FacadeIds(World), id \in Identities : LogInCall(t, f, id)
  \/ \E t \in ClientTaskIds, status \in { 201, 500 } : LogInResponse(t, status)
  \/ \E t \in ClientTaskIds, status \in { 200, 500 } : IdentityResponse(t, status)
  \/ \E t \in ClientTaskIds, status \in { 200, 500 } :
       \E body \in AllWalletBodies : WalletsResponse(t, status, body)
  \/ \E f \in FacadeIds(World) : LogOut(f)
  \/ \E t \in ClientTaskIds, token \in Tokens : InitializeServerCall(t, token)
  \/ \E t \in ClientTaskIds, name \in FetchNames, answer \in FetchAnswers : FetchArrive(t, name, answer)
  \/ \E t \in ClientTaskIds, name \in FetchNames : FetchReject(t, name)
  \/ \E op \in GatedOps : \E rangeOk \in RangeInputs(op) : ModuleRepositoryCall(op, rangeOk)

SpecModuleRepo == Init /\ [][NextModuleRepo]_vars

\* ------------------------------------------------------------------ properties

\* C1: across every step (instance reads, logIn, logOut, resetPassword,
\* initializeServer), once AfloatAuth.instance holds a facade it keeps holding
\* that same facade; every read returns it; facades already built are never
\* replaced; and the only client facade there ever is, is that one.
C1_InstanceIsOneFacade ==
  [][ /\ instance # NoFacade => instance' = instance
      /\ Len(facades') >= Len(facades)
      /\ \A f \in 1..Len(facades) : facades'[f] = facades[f]
      /\ \A f \in 1..Len(facades') : facades'[f].kind = "client" <=> f = instance'
      /\ lastEvent'.op = "instance" =>
           lastEvent'.f = instance' /\ instance' # NoFacade ]_vars

\* C1 witness: AfloatAuth.instance is read and returns the client facade after
\* a session was cleared on it and while a server facade holds AuthContext.current.
C1_Witness ==
  /\ lastEvent.op = "instance"
  /\ lastEvent.f = instance
  /\ authToken = NoToken
  /\ wsm.created
  /\ current \in ServerFacades(World)

\* C3: a call of initializeServer with an empty token throws before any of the
\* three fetches is issued, returns no facade, starts nothing, and leaves
\* AuthContext.current and every facade, store and handler as they were.
C3_EmptyTokenFailsFirst ==
  [][ (lastEvent'.op = "initializeServer" /\ lastEvent'.outcome = "Error: Token is required") =>
        /\ lastEvent'.sent = {}
        /\ lastEvent'.f = NoFacade
        /\ lastEvent'.user = Undefined
        /\ tasks' = tasks
        /\ current' = current
        /\ facades' = facades
        /\ serverUser' = serverUser
        /\ serverToken' = serverToken ]_vars

\* C3 witness: initializeServer("") has just thrown while AuthContext.current
\* holds a facade.
C3_Witness ==
  /\ lastEvent.op = "initializeServer"
  /\ lastEvent.outcome = "Error: Token is required"
  /\ current # NoFacade

\* C4: initializeServer settles with a facade exactly when all three fetches
\* answered 200 with well-formed data; then the facade is new, holds a user
\* with the call's token and is AuthContext.current. When any fetch failed
\* (rejected, another status, malformed data), in whatever order they
\* completed, the call throws, no facade is built and AuthContext.current
\* stays as it was.
C4_AllOrNothing ==
  [][ (lastEvent'.op = "initializeServer" /\ lastEvent'.input # Undefined) =>
        /\ lastEvent'.outcome \in { "resolved", "Error: Failed to initialize" }
        /\ lastEvent'.outcome = "resolved" <=>
             \A name \in FetchNames : lastEvent'.input[name] = "ok"
        /\ lastEvent'.outcome = "resolved" =>
             /\ lastEvent'.f = Len(facades) + 1
             /\ Len(facades') = Len(facades) + 1
             /\ current' = lastEvent'.f
             /\ lastEvent'.user # Undefined
             /\ StoreGetUser(World', lastEvent'.f) = lastEvent'.user
             /\ lastEvent'.user.token = lastEvent'.input.token
             /\ GetUserToken(World', lastEvent'.f) = lastEvent'.input.token
        /\ lastEvent'.outcome # "resolved" =>
             /\ lastEvent'.f = NoFacade
             /\ lastEvent'.user = Undefined
             /\ facades' = facades
             /\ current' = current ]_vars

\* C4 witness: initializeServer has just failed because only the identity
\* fetch, answered last, came back malformed, while AuthContext.current holds a facade.
C4_Witness ==
  /\ lastEvent.op = "initializeServer"
  /\ lastEvent.outcome = "Error: Failed to initialize"
  /\ lastEvent.input # Undefined
  /\ lastEvent.input.access = "ok"
  /\ lastEvent.input.profile = "ok"
  /\ lastEvent.input.identity = "malformed"
  /\ current # NoFacade

\* C6: on every facade, in every reachable state, checkPermission(p) is a
\* boolean (it does not throw), true exactly when there is a current user whose
\* can(p) is true; with an empty store, right after logOut and right after a
\* successful resetPassword it is false for every permission string.
C6_CheckPermission ==
  \A f \in FacadeIds(World) : \A p \in PermissionStrings :
    /\ CheckPermission(World, f, p) \in BOOLEAN
    /\ CheckPermission(World, f, p) <=>
         (CurrentUser(World, f) # Undefined /\ Can(CurrentUser(World, f), p))
    /\ (facades[f].kind = "client" /\ clientUser = Undefined) =>
         ~CheckPermission(World, f, p)
    /\ (facades[f].kind = "server" /\ serverUser[facades[f].store] = Undefined) =>
         ~CheckPermission(World, f, p)
    /\ (lastEvent.f = f /\ lastEvent.op = "logOut") => ~CheckPermission(World, f, p)
    /\ (lastEvent.f = f /\ lastEvent.op = "resetPassword" /\ lastEvent.outcome = "resolved") =>
         ~CheckPermission(World, f, p)

\* C6 witness: the client facade was just logged out, while a server facade
\* holds a user who can create payouts.
C6_Witness ==
  /\ lastEvent.op = "logOut"
  /\ lastEvent.f = instance
  /\ \E g \in ServerFacades(World) : CheckPermission(World, g, "payout.create")

\* C7 (as claimed): when logIn has just resolved, the facade's currentUser is
\* the user it returned and getUserToken() is that user's token.
C7_LogInReplacesSession ==
  (lastEvent.op = "logIn" /\ lastEvent.outcome = "resolved") =>
    /\ CurrentUser(World, lastEvent.f) = lastEvent.user
    /\ GetUserToken(World, lastEvent.f) = lastEvent.user.token

\* C8: resetPassword clears the session exactly when updatePassword answered
\* 200: then it resolves and the facade has no current user and no token. On
\* 400 it throws APIError 400, on any other status APIError 502, and the
\* facade's current user and token, like everything else, are as before.
C8_ResetPassword ==
  [][ (lastEvent'.op = "resetPassword" /\ lastEvent'.input # Undefined) =>
        /\ lastEvent'.input.status = 200 =>
             /\ lastEvent'.outcome = "resolved"
             /\ CurrentUser(World', lastEvent'.f) = Undefined
             /\ GetUserToken(World', lastEvent'.f) \in { NoToken, "" }
        /\ lastEvent'.input.status # 200 =>
             /\ lastEvent'.outcome =
                  IF lastEvent'.input.status = 400 THEN "APIError400" ELSE "APIError502"
             /\ CurrentUser(World', lastEvent'.f) = CurrentUser(World, lastEvent'.f)
             /\ GetUserToken(World', lastEvent'.f) = GetUserToken(World, lastEvent'.f)
             /\ World' = World ]_vars

\* C8 witness: resetPassword has just thrown APIError 400 on a facade that
\* still holds its user and token.
C8_Witness ==
  /\ lastEvent.op = "resetPassword"
  /\ lastEvent.outcome = "APIError400"
  /\ CurrentUser(World, lastEvent.f) # Undefined
  /\ GetUserToken(World, lastEvent.f) \in Tokens


C2_FreshServerFacade ==
  [][ /\ \A A \in ServerFacades(World) :
           lastEvent'.f # A =>
             /\ GetUserToken(World', A) = GetUserToken(World, A)
             /\ CurrentUser(World', A) = CurrentUser(World, A)
      /\ (lastEvent'.op = "initializeServer" /\ lastEvent'.outcome = "resolved") =>
           /\ lastEvent'.f \notin FacadeIds(World)
           /\ lastEvent'.f # instance'
           /\ facades'[lastEvent'.f].kind = "server"
           /\ \A B \in ServerFacades(World) :
                /\ facades'[lastEvent'.f].store # facades[B].store
                /\ facades'[lastEvent'.f].handler # facades[B].handler ]_vars

\* C2 witness: two server facades, A built from t1 and B from t2; B was just
\* logged out and holds nothing, A still holds its user and its token.
C2_Witness ==
  \E A \in ServerFacades(World) : \E B \in ServerFacades(World) :
    /\ A # B
    /\ lastEvent.op = "logOut"
    /\ lastEvent.f = B
    /\ \E r \in RequestIds : reqs[r].facade = B /\ reqs[r].token = "t2"
    /\ CurrentUser(World, B) = Undefined
    /\ GetUserToken(World, A) = "t1"
    /\ CurrentUser(World, A) # Undefined
    /\ CurrentUser(World, A).token = "t1"

\* C5 (as claimed): a repository built and used by one request never takes its
\* auth, its permission check or its token from the facade of another request
\* that came with another token, and the token it sends is its request's own.
C5_RequestIsolation ==
  \A r \in RequestIds : \A q \in RequestIds :
    (r # q /\ reqs[q].facade # NoFacade /\ reqs[q].token # reqs[r].token) =>
      /\ reqs[r].pc \in { "built", "called", "thrown" } => reqs[r].auth # reqs[q].facade
      /\ reqs[r].pc \in { "called", "thrown" } => reqs[r].permFrom # reqs[q].facade
      /\ reqs[r].pc = "called" =>
           /\ reqs[r].tokenFrom # reqs[q].facade
           /\ reqs[r].sentToken = reqs[r].token

\* C10: when a gated repository operation has just run and checkPermission of
\* the facade it consulted is false for the permission it requires, it threw
\* PermissionError with requiredPermissions exactly that permission and sent
\* no request; it threw PermissionError in no other case, and whenever it sent
\* nothing it threw (nothing is answered with an empty result).
C10_PermissionGate ==
  \A op \in GatedOps :
    lastEvent.op = op =>
      /\ ~CheckPermission(World, lastEvent.f, CheckedPermission(op)) =>
           /\ lastEvent.outcome = "PermissionError"
           /\ lastEvent.sent = {}
           /\ lastEvent.requiredPermissions = { CheckedPermission(op) }
      /\ lastEvent.outcome = "PermissionError" =>
           ~CheckPermission(World, lastEvent.f, CheckedPermission(op))
      /\ lastEvent.sent = {} => lastEvent.outcome \in { "PermissionError", "APIError400" }
      /\ lastEvent.sent # {} => lastEvent.sent = { op } /\ lastEvent.outcome = "pending"

\* C10 witness: PayoutRepository.reject was called for a logged-in user who
\* lacks payout.approve and threw PermissionError for exactly that permission.
C10_Witness ==
  /\ lastEvent.op = "payout.reject"
  /\ lastEvent.outcome = "PermissionError"
  /\ lastEvent.sent = {}
  /\ lastEvent.requiredPermissions = { "payout.approve" }
  /\ CurrentUser(World, lastEvent.f) # Undefined
  /\ CheckPermission(World, lastEvent.f, "payout.create")


\* C11: for every payout record the schema accepts, Payout.status (and
\* ProcessedPayout.transactionStatus) is REJECTED when approvalStatus is
\* Rejected, FAILED when Approved with transaction status FAILED, PAID when
\* Approved with any other transaction status, PENDING when Pending, the stored
\* transaction status otherwise; and it is one of REJECTED, FAILED, PAID,
\* PENDING, CREATED.
C11_PayoutStatus ==
  \A x \in answers :
    x[1] \in { "status", "transactionStatus" } =>
      /\ x[2] \in PAYOUT_STATUS
      /\ x[2] = CASE subject.data.approvalStatus = "Rejected" -> "REJECTED"
                  [] subject.data.approvalStatus = "Approved"
                       /\ subject.data.status = "FAILED" -> "FAILED"
                  [] subject.data.approvalStatus = "Approved"
                       /\ subject.data.status # "FAILED" -> "PAID"
                  [] subject.data.approvalStatus = "Pending" -> "PENDING"
                  [] OTHER -> subject.data.status

\* C11 witness: an approved payout whose stored transaction status is QUEUED
\* answered PAID, from Payout.status and from ProcessedPayout.transactionStatus.
C11_Witness ==
  /\ subject.data = [ approvalStatus |-> "Approved", status |-> "QUEUED" ]
  /\ << "status", "PAID" >> \in answers
  /\ << "transactionStatus", "PAID" >> \in answers

\* C12: getContactDetails answers with the bank parse whenever
\* getBankContactDetails yields a contact, otherwise with the mobile parse
\* whenever getMobileContactDetails yields one, otherwise with nothing.
C12_BankFirstThenMobile ==
  \A b, m, r \in answers :
    ( /\ b[1] = "getBankContactDetails"
      /\ m[1] = "getMobileContactDetails"
      /\ r[1] = "getContactDetails" )
    => /\ ~r[2].threw
       /\ r[2].value = IF b[2].value # Undefined THEN b[2].value
                       ELSE IF m[2].value # Undefined THEN m[2].value
                       ELSE Undefined

\* The three methods were called on a narration only the mobile parse reads.
C12_Witness ==
  \E b, m, r \in answers :
    /\ b[1] = "getBankContactDetails" /\ b[2].value = Undefined
    /\ m[1] = "getMobileContactDetails" /\ m[2].value # Undefined
    /\ r[1] = "getContactDetails" /\ r[2].value = m[2].value

\* C13: whatever the narration text, getBankContactDetails,
\* getMobileContactDetails and getContactDetails return a contact or
\* `undefined` and no exception comes out of them.
C13_ParsersNeverThrow ==
  \A a \in answers :
    /\ ~a[2].threw
    /\ a[2].value # Undefined =>
         \/ DOMAIN a[2].value = DOMAIN BankContactInfo(<< >>, CRDB, << >>)
              /\ a[2].value.type = "Bank"
         \/ DOMAIN a[2].value = DOMAIN MobileContactInfo(<< >>, Undefined)
              /\ a[2].value.type = "Mobile"

\* A parse was made of a narration whose `try` block throws (a legacy prefix
\* without "=>", malformed JSON, `null`).
C13_Witness ==
  /\ subject.text # NoText
  /\ BankTryBlock(StripEcobank(subject.text)).threw
  /\ \E a \in answers : a[1] = "getBankContactDetails"

\* The title-cased form of a name: each word, the words being what single
\* spaces separate, with its first letter upper-cased and the rest lower-cased.
TitleCased(name) == join(MapCapitalize(split(name, << " " >>)), << " " >>)

\* The narration at hand was generated from a valid mobile contact and
\* parsed back into `back`.
MobileRoundTrip(back) ==
  /\ subject.contact # Undefined
  /\ subject.contact.type = "Mobile"
  /\ MobileContactInfoValidate(subject.contact)
  /\ subject.text # NoText
  /\ << "getMobileContactDetails", back >> \in answers

\* C14 as stated: the narration generated from any mobile contact with a
\* non-empty name and a valid phone number parses back to a contact with the
\* same phone number and the title-cased form of the name.
C14_AsStated ==
  \A back \in { a[2] : a \in answers } :
    MobileRoundTrip(back) =>
      back.value = MobileContactInfo(TitleCased(subject.contact.name), subject.contact.phoneNumber)

\* C14: the narration generated from a mobile contact with a valid phone
\* number and a name that is not blank parses back to a contact with the same
\* phone number and the title-cased form of the trimmed name.
C14_MobileRoundTrip ==
  \A back \in { a[2] : a \in answers } :
    ( MobileRoundTrip(back) /\ trim(subject.contact.name) # << >> ) =>
      back.value = MobileContactInfo(TitleCased(trim(subject.contact.name)),
                                     subject.contact.phoneNumber)

\* A contact whose name has a blank before it made the round trip.
C14_Witness ==
  \E back \in { a[2] : a \in answers } :
    /\ MobileRoundTrip(back)
    /\ trim(subject.contact.name) # << >>
    /\ trim(subject.contact.name) # subject.contact.name
    /\ back.value # Undefined

\* The narration at hand was generated from a valid bank contact and parsed
\* back into `back`.
BankRoundTrip(back) ==
  /\ subject.contact # Undefined
  /\ subject.contact.type = "Bank"
  /\ BankContactInfoValidate(subject.contact)
  /\ subject.text # NoText
  /\ << "getBankContactDetails", back >> \in answers

\* C15: the narration generated from any valid bank contact (a bank of the
\* registry, an account number the account-number rule accepts, a valid
\* account name) parses back to a contact with the same bank, the same
\* account number and the title-cased form of the account name.
C15_BankRoundTrip ==
  \A back \in { a[2] : a \in answers } :
    BankRoundTrip(back) =>
      /\ back.value # Undefined
      /\ back.value.bank = subject.contact.bank
      /\ back.value.accNo = subject.contact.accNo
      /\ back.value.accName = TitleCased(trim(subject.contact.accName))

\* The tokens of a text: its maximal runs of characters that are not whitespace.
RECURSIVE WhitespaceTokens(_)
WhitespaceTokens(s) ==
  LET rest == trimStart(s)
      ends == { i \in 1..Len(rest) : rest[i] \in WhiteSpace }
      stop == IF ends = {} THEN Len(rest) + 1 ELSE CHOOSE i \in ends : \A j \in ends : i <= j
  IN  IF rest = << >> THEN << >>
      ELSE << SubSeq(rest, 1, stop - 1) >> \o WhitespaceTokens(SubSeq(rest, stop, Len(rest)))

\* What the tokens of a current-format bank narration's remainder spell: the
\* bank of the first token's short name, the second token as account number,
\* the remaining tokens title-cased and joined by single spaces as account
\* name; nothing when one of the three is missing.
BankOfTokens(tokens) ==
  IF Len(tokens) >= 3 /\ BankFromBankName(tokens[1]) # Undefined
  THEN BankContactInfo(join(MapCapitalize(slice(tokens, 2)), << " " >>),
                       BankFromBankName(tokens[1]), tokens[2])
  ELSE Undefined

\* C16: of a current-format bank narration (an optional "MOBILE TRANSFER "
\* prefix, "PAYOUT TO BANK", a remainder) getBankContactDetails reads the
\* remainder's whitespace-separated tokens: bank short name, account number,
\* then the account name's words, title-cased and joined by single spaces.
C16_BankTokens ==
  \A back \in { a[2] : a \in answers } :
    ( /\ subject.text # NoText
      /\ << "getBankContactDetails", back >> \in answers
      /\ startsWith(StripEcobank(subject.text), BANK_NARR_PREFIX) )
    => back.value =
         BankOfTokens(WhitespaceTokens(
           substring(StripEcobank(subject.text), Len(BANK_NARR_PREFIX))))

C18_APIErrorCarriesAll ==
  \A a \in answers :
    a[1] = "APIError" =>
      /\ a[2].statusCode = subject.result.body.statusCode
      /\ a[2].message = subject.result.body.message
      /\ a[2].error = subject.result.body.error
      /\ a[2].details = subject.result.body.details

\* An account number with a whitespace character between two of its characters.
EmbeddedWhitespace(n) ==
  \E i, j, k \in 1..Len(n) :
    i < j /\ j < k /\ n[i] \notin WhiteSpace /\ n[j] \in WhiteSpace /\ n[k] \notin WhiteSpace

\* An account number the account-number rule refuses: whitespace between its
\* characters, a hyphen, fewer than 6 or more than 20 characters.
RefusedAccountNumber(n) ==
  \/ EmbeddedWhitespace(n)
  \/ \E i \in 1..Len(n) : n[i] = "-"
  \/ Len(trim(n)) < 6
  \/ Len(trim(n)) > 20

\* C19: validateBankAccNo, and with it BankContactInfo.validate, answers
\* false for every account number with whitespace between its characters,
\* with a hyphen, or with fewer than 6 or more than 20 characters.
C19_AccountNumberRule ==
  \A a \in answers :
    RefusedAccountNumber(subject.contact.accNo) => a[2] = FALSE

\* C20: whenever the wallet session is initialized, its wallet list is not
\* empty, selectedWalletId is the id of a wallet of the list, and
\* selectedCountryCode is that wallet's country code.
C20_WalletSessionInvariant ==
  wallet.isInitialized =>
    /\ Len(wallet.wallets) > 0
    /\ \E i \in 1..Len(wallet.wallets) : wallet.wallets[i].id = wallet.selectedWalletId
    /\ \A i \in 1..Len(wallet.wallets) :
         wallet.wallets[i].id = wallet.selectedWalletId
           => wallet.wallets[i].countryCode = wallet.selectedCountryCode

\* The country was changed to one whose wallet is not the first of the list.
C20_Witness ==
  /\ wallet.isInitialized
  /\ lastEvent.op \in { "changeCountry", "setSelectedCountry" }
  /\ lastEvent.outcome = "returned"
  /\ wallet.selectedWalletId # wallet.wallets[1].id

\* The methods of WalletSessionManager that need an initialized session.
GuardedManagerMethods ==
  { "getWallets", "getCountries", "getWalletsByCountry", "getSelectedWallet",
    "getSelectedCountryCode", "getSelectedCountry", "changeWallet", "changeCountry" }

\* C21: whenever the wallet session is not initialized, a call of getWallets,
\* getCountries, getWalletsByCountry, getSelectedWallet, getSelectedCountryCode,
\* getSelectedCountry, changeWallet or changeCountry throws, hands out no
\* value, and leaves the wallet store, the stored user and token and the
\* facades as they were.
C21_UninitializedThrows ==
  [][ (lastEvent'.op \in GuardedManagerMethods /\ ~wallet.isInitialized) =>
        /\ lastEvent'.outcome = "Error"
        /\ lastEvent'.user = Undefined
        /\ "value" \in DOMAIN lastEvent'.input => lastEvent'.input.value = Undefined
        /\ wallet' = wallet
        /\ << instance, current, facades, serverUser, serverToken, clientUser, authToken >>'
             = << instance, current, facades, serverUser, serverToken, clientUser, authToken >>
    ]_vars

\* C21 witness: a user is logged in, the wallet session is not initialized
\* (it was reset, or its wallets never arrived), and changeCountry has just thrown.
C21_Witness ==
  /\ lastEvent.op = "changeCountry"
  /\ lastEvent.outcome = "Error"
  /\ ~wallet.isInitialized
  /\ instance # NoFacade
  /\ CurrentUser(World, instance) # Undefined

\* C22: when logOut() has just run on a facade, whatever was in flight, that
\* facade has no current user, getUserToken() is undefined or empty,
\* checkPermission is false for every permission string, and the wallet
\* session is the uninitialized one with an empty wallet list.
C22_LogOutClearsAll ==
  lastEvent.op = "logOut" =>
    /\ CurrentUser(World, lastEvent.f) = Undefined
    /\ GetUserToken(World, lastEvent.f) \in { NoToken, "" }
    /\ \A perm \in PermissionStrings : ~CheckPermission(World, lastEvent.f, perm)
    /\ ~wallet.isInitialized
    /\ wallet.wallets = << >>
    /\ wallet = InitialWallet

\* C22 witness: logOut has just run while a logIn that had already stored its
\* user and token was waiting for its wallet fetch.
C22_Witness ==
  /\ lastEvent.op = "logOut"
  /\ \E t \in TaskIds : tasks[t].kind = "logIn" /\ tasks[t].pc = "wallets"
                          /\ tasks[t].f = lastEvent.f

\* C23 (as claimed): whenever the wallet session is initialized, the client
\* facade has a current user and the stored wallets are the wallets the
\* backend holds for that user, whatever ran while a wallet fetch was in flight.
C23_InitializedForCurrentUser ==
  wallet.isInitialized =>
    /\ instance # NoFacade
    /\ CurrentUser(World, instance) # Undefined
    /\ wallet.wallets = WalletsFrom(WalletsOf(CurrentUser(World, instance).token))

\* The outcomes of a logIn that rejects.
LogInRejections == { "Error", "APIError400", "APIError502" }

\* C24 (as claimed): when a logIn that ran alone rejects, for whatever reason,
\* the session of its facade is the one its caller read right before the
\* call: the same currentUser and the same token.
C24_RejectedLogInKeepsSession ==
  [][ \A t \in ClientTaskIds :
        ( /\ tasks[t].kind = "logIn"
          /\ tasks'[t] = Idle
          /\ lastEvent'.op = "logIn"
          /\ lastEvent'.outcome \in LogInRejections ) =>
          \A a \in answers : a[1] = t => SessionOf(World', tasks[t].f) = a[2]
    ]_vars

\* C25 (as claimed): whenever a repository built before any facade existed
\* sends a request, the token in the header was read from the facade that
\* answered the operation's permission check and is that facade's token, and
\* sending the request leaves AuthContext.current as it was.
C25_TokenOfCheckedFacade ==
  [][ ( /\ lastEvent'.op \in GatedOps
        /\ lastEvent'.sent # {}
        /\ "tokenFrom" \in DOMAIN lastEvent'.input ) =>
        /\ lastEvent'.input.tokenFrom = lastEvent'.f
        /\ lastEvent'.input.token = GetUserToken(World', lastEvent'.f)
        /\ current' = current
    ]_vars

\* A token that can be used: neither undefined nor empty.
UsableToken(token) == token # NoToken /\ token # ""

\* C26: in every state in which no operation of a facade is in flight, each
\* facade has a current user exactly when its getUserToken() is a non-empty
\* token, and then that token is its current user's token.
C26_UserAndTokenAgree ==
  (\A t \in TaskIds : tasks[t] = Idle) =>
    \A f \in FacadeIds(World) :
      /\ CurrentUser(World, f) # Undefined <=> UsableToken(GetUserToken(World, f))
      /\ CurrentUser(World, f) # Undefined =>
           GetUserToken(World, f) = CurrentUser(World, f).token

\* C26 witness: a logIn has just resolved on the client facade while a server
\* facade with its own user exists, and nothing is in flight.
C26_Witness ==
  /\ \A t \in TaskIds : tasks[t] = Idle
  /\ lastEvent.op = "logIn"
  /\ lastEvent.outcome = "resolved"
  /\ instance # NoFacade
  /\ CurrentUser(World, instance) # Undefined
  /\ GetUserToken(World, instance) = CurrentUser(World, instance).token
  /\ \E f \in ServerFacades(World) :
       /\ CurrentUser(World, f) # Undefined
       /\ CurrentUser(World, f).token # CurrentUser(World, instance).token

\* The first wallet of a list with the given id.
FirstWithId(list, id) ==
  list[CHOOSE i \in 1..Len(list) :
         /\ list[i].id = id
         /\ \A j \in 1..(i - 1) : list[j].id # id]

\* What the claim has setWallets select: the selected wallet when the session
\* is initialized and its id is among the valid wallets of the list, else the
\* first valid wallet.
ClaimedSelection(ws, valid) ==
  IF ws.isInitialized /\ \E i \in 1..Len(valid) : valid[i].id = ws.selectedWalletId
  THEN FirstWithId(valid, ws.selectedWalletId)
  ELSE valid[1]

\* C27: a setWallets(list) that returns keeps the selected wallet when the
\* session was initialized and that wallet's id is still in the list, and
\* otherwise selects the first valid wallet of the list; selectedCountryCode
\* becomes the selected wallet's country and isInitialized becomes true.
C27_SetWalletsSelection ==
  [][ \A wallets \in WalletLists :
        StoreSetWallets(wallets) /\ lastEvent'.outcome = "returned" =>
          LET valid == SelectSeq(wallets, WalletIs)
              chosen == ClaimedSelection(wallet, valid)
          IN /\ wallet'.selectedWalletId = chosen.id
             /\ wallet'.selectedCountryCode = chosen.countryCode
             /\ wallet'.isInitialized ]_vars

\* C27 witness: setWallets returned with a list whose first wallet is w1 and
\* the selection stayed on w2, the wallet selected before.
C27_Witness ==
  /\ lastEvent.op = "setWallets"
  /\ lastEvent.outcome = "returned"
  /\ wallet.isInitialized
  /\ Len(wallet.wallets) = 2
  /\ wallet.wallets[1].id = "w1"
  /\ wallet.selectedWalletId = "w2"
  /\ wallet.selectedCountryCode = "KE"

\* The step threw and left the four fields of the wallet store as they were.
ThrewAndKeptStore ==
  /\ lastEvent'.outcome = "Error"
  /\ wallet'.wallets = wallet.wallets
  /\ wallet'.selectedWalletId = wallet.selectedWalletId
  /\ wallet'.selectedCountryCode = wallet.selectedCountryCode
  /\ wallet'.isInitialized = wallet.isInitialized

HasWalletId(ws, id) == \E i \in 1..Len(ws.wallets) : ws.wallets[i].id = id

HasCountry(ws, countryCode) ==
  \E i \in 1..Len(ws.wallets) : ws.wallets[i].countryCode = countryCode

\* C28: changeWallet(id) and setSelectedWallet with an id not in the wallet
\* list, changeCountry(c) and setSelectedCountry(c) when no wallet has country
\* c, and setWallets with an empty list or no valid wallet each throw and
\* leave wallets, selectedWalletId, selectedCountryCode and isInitialized as
\* they were.
C28_RejectedActionKeepsStore ==
  [][ /\ \A w \in WalletObjects :
           ~HasWalletId(wallet, w.id) /\ ChangeWallet(w.id) => ThrewAndKeptStore
      /\ \A w \in WalletObjects :
           ~HasWalletId(wallet, w.id) /\ StoreSetSelectedWallet(w) => ThrewAndKeptStore
      /\ \A countryCode \in CountryCodes :
           ~HasCountry(wallet, countryCode) /\ ChangeCountry(countryCode)
             => ThrewAndKeptStore
      /\ \A countryCode \in CountryCodes :
           ~HasCountry(wallet, countryCode) /\ StoreSetSelectedCountry(countryCode)
             => ThrewAndKeptStore
      /\ \A wallets \in WalletLists :
           SelectSeq(wallets, WalletIs) = << >> /\ StoreSetWallets(wallets)
             => ThrewAndKeptStore ]_vars

\* C28 witness: changeCountry threw on an initialized session that holds the
\* single wallet w3 and keeps it selected.
C28_Witness ==
  /\ lastEvent.op = "changeCountry"
  /\ lastEvent.outcome = "Error"
  /\ wallet.isInitialized
  /\ Len(wallet.wallets) = 1
  /\ wallet.selectedWalletId = "w3"
  /\ wallet.selectedCountryCode = "TZ"

\* AuthContext.current?.currentUser
ContextUser(w) ==
  IF w.current = NoFacade THEN Undefined ELSE CurrentUser(w, w.current)

\* initialize() is the only operation in flight, and the last step was its
\* own call.
InitializeAlone(t) ==
  /\ tasks[t].kind = "initialize"
  /\ \A u \in TaskIds \ { t } : tasks[u] = Idle
  /\ lastEvent.op = "initialize"
  /\ lastEvent.outcome = "pending"

C30_DefaultNarrationDispatches ==
  lastEvent.op = "generateDefaultPayoutNarration" =>
    /\ subject.contact.type = "Mobile" =>
         subject.text = generateMobilePayoutNarration(subject.contact)
    /\ subject.contact.type = "Bank" =>
         subject.text = generateBankPayoutNarration(subject.contact)
    /\ subject.text = << >> => subject.contact.type \notin { "Mobile", "Bank" }

====
